---- MODULE Spec2Model ----
(***************************************************************************)
(* Model of chrono's signed duration type TimeDelta (src/time_delta.rs).   *)
(*                                                                         *)
(* TLC's integers are 32 bits wide and the program's are 64, so an i64, a  *)
(* u64 and every exact intermediate value is a wide integer: a vector of   *)
(* ten limbs of Base, least significant first, all limbs of one sign       *)
(* (-1_500_000 is <<0, -500, -1, 0, ...>>).  The i32 field `nanos` is a    *)
(* TLC integer.                                                            *)
(***************************************************************************)
EXTENDS Integers, Sequences, FiniteSets

\* ---------------------------------------------------------------------
\* Wide integers
\* ---------------------------------------------------------------------
Base == 10^3
Idx == 1..10

\* carry propagation: limbs 1..9 end in 0..Base-1, the last limb keeps the sign
RECURSIVE Carry(_, _, _)
Carry(v, i, c) ==
    IF i = 10 THEN <<v[i] + c>>
    ELSE <<(v[i] + c) % Base>> \o Carry(v, i + 1, (v[i] + c) \div Base)

BNeg(a) == <<-a[1], -a[2], -a[3], -a[4], -a[5], -a[6], -a[7], -a[8], -a[9], -a[10]>>

Norm(v) ==
    LET f == Carry(v, 1, 0)
    IN IF f[10] < 0 THEN BNeg(Carry(BNeg(f), 1, 0)) ELSE f

\* the wide integer written in groups of three decimal digits, most significant first
Lit(s) == [i \in Idx |-> IF i <= Len(s) THEN s[Len(s) + 1 - i] ELSE 0]
\* the wide integer of a TLC integer above -2^31
FromInt(n) ==
    LET a == IF n < 0 THEN -n ELSE n
        s == IF n < 0 THEN -1 ELSE 1
    IN <<s * (a % Base), s * ((a \div Base) % Base), s * ((a \div (Base * Base)) % Base),
         s * (a \div (Base * Base * Base)), 0, 0, 0, 0, 0, 0>>
ToInt(a) == ((a[4] * Base + a[3]) * Base + a[2]) * Base + a[1]
Zero == <<0, 0, 0, 0, 0, 0, 0, 0, 0, 0>>
One == <<1, 0, 0, 0, 0, 0, 0, 0, 0, 0>>

BAdd(a, b) == Norm([i \in Idx |-> a[i] + b[i]])
BSub(a, b) == Norm([i \in Idx |-> a[i] - b[i]])
BSign(a) ==
    IF \E i \in Idx : a[i] < 0 THEN -1
    ELSE IF \E i \in Idx : a[i] > 0 THEN 1 ELSE 0
BLt(a, b) == BSign(BSub(a, b)) < 0
BLe(a, b) == BSign(BSub(a, b)) <= 0
BAbs(a) == IF BSign(a) < 0 THEN BNeg(a) ELSE a

RECURSIVE Conv(_, _, _, _)
Conv(a, b, k, i) == IF i > k THEN 0 ELSE a[i] * b[k + 1 - i] + Conv(a, b, k, i + 1)
BMul(a, b) == Norm([k \in Idx |-> Conv(a, b, k, 1)])

\* Long division of a >= 0 by b > 0, one limb of the quotient at a time.
\* the index of the leading limb
RECURSIVE Top(_, _)
Top(v, i) == IF i = 1 \/ v[i] # 0 THEN i ELSE Top(v, i - 1)
LimbAt(v, i) == IF i \in Idx THEN v[i] ELSE 0
\* a lower estimate of floor(r / b) for r < b * Base, from the leading limbs (m = Top(b))
EstimateAt(m, r, b) ==
    IF m <= 2 THEN ToInt(r) \div ToInt(b)
    ELSE ((LimbAt(r, m + 1) * Base + r[m]) * Base + r[m - 1]) \div (b[m] * Base + b[m - 1] + 1)
RECURSIVE Correct(_, _, _)
Correct(t, r, b) == IF BLe(b, r) THEN Correct(t + 1, BSub(r, b), b) ELSE <<t, r>>
CorrectFrom(t, r, b) == Correct(t, BSub(r, Norm([i \in Idx |-> b[i] * t])), b)
\* <<limb of the quotient, remainder>> of r < b * Base by b
DivStep(r, b, m) == CorrectFrom(EstimateAt(m, r, b), r, b)
Shift(r, d) == <<d, r[1], r[2], r[3], r[4], r[5], r[6], r[7], r[8], r[9]>>
Prepend(rest, d) == <<rest[1] \o <<d>>, rest[2]>>
RECURSIVE DivLoop(_, _, _, _, _)
RECURSIVE DivNext(_, _, _, _, _)
DivLoop(a, b, m, i, r) ==
    IF i = 0 THEN <<<<>>, r>> ELSE DivNext(a, b, m, i, DivStep(Shift(r, a[i]), b, m))
DivNext(a, b, m, i, s) ==
    IF s[1] < Base THEN Prepend(DivLoop(a, b, m, i - 1, s[2]), s[1]) ELSE <<>>
Padded(qr) == <<[i \in Idx |-> IF i <= Len(qr[1]) THEN qr[1][i] ELSE 0], qr[2]>>
DivModPos(a, b) == Padded(DivLoop(a, b, Top(b, 10), Top(a, 10), Zero))

\* Rust's `/` and `%` on integers: the quotient is truncated toward zero
WithSign(q, sign) == IF sign < 0 THEN BNeg(q) ELSE q
TruncDiv(a, b) == WithSign(DivModPos(BAbs(a), BAbs(b))[1], BSign(a) * BSign(b))
RemOf(a, b, q) == <<q, BSub(a, BMul(q, b))>>
TruncDivRem(a, b) == RemOf(a, b, TruncDiv(a, b))
TruncRem(a, b) == TruncDivRem(a, b)[2]

\* i64::div_euclid / i64::rem_euclid of the truncated <<quotient, remainder>> qr by b:
\* the remainder is never negative
EuclidOf(qr, b) ==
    IF BSign(qr[2]) >= 0 THEN qr
    ELSE IF BSign(b) > 0 THEN <<BSub(qr[1], One), BAdd(qr[2], BAbs(b))>>
    ELSE <<BAdd(qr[1], One), BAdd(qr[2], BAbs(b))>>
div_euclid(a, b) == EuclidOf(TruncDivRem(a, b), b)[1]
rem_euclid(a, b) == EuclidOf(TruncDivRem(a, b), b)[2]

I64_MAX == <<807, 775, 854, 36, 372, 223, 9, 0, 0, 0>>
I64_MIN == <<-808, -775, -854, -36, -372, -223, -9, 0, 0, 0>>
I32_MAX == <<647, 483, 147, 2, 0, 0, 0, 0, 0, 0>>
I32_MIN == <<-648, -483, -147, -2, 0, 0, 0, 0, 0, 0>>
U32_MAX == <<295, 967, 294, 4, 0, 0, 0, 0, 0, 0>>
U64_MAX == <<615, 551, 709, 73, 744, 446, 18, 0, 0, 0>>
InRange(lo, x, hi) == BLe(lo, x) /\ BLe(x, hi)
InI64(x) == InRange(I64_MIN, x, I64_MAX)
InI32(x) == InRange(I32_MIN, x, I32_MAX)
\* the value a two's complement integer of the range lo..hi holds after an operation
\* whose exact result is x
Wrap(lo, x, hi) ==
    IF InRange(lo, x, hi) THEN x
    ELSE BAdd(rem_euclid(BSub(x, lo), BAdd(BSub(hi, lo), One)), lo)
WrapI64(x) == Wrap(I64_MIN, x, I64_MAX)
WrapI32(x) == Wrap(I32_MIN, x, I32_MAX)
\* `x as u32` of an i32 x
AsU32(n) == IF n >= 0 THEN FromInt(n) ELSE BAdd(FromInt(n), BAdd(U32_MAX, One))

\* ---------------------------------------------------------------------
\* TimeDelta: constants and values
\* ---------------------------------------------------------------------
NANOS_PER_MICRO == 1000
NANOS_PER_MILLI == 1000000
NANOS_PER_SEC == 1000000000
MICROS_PER_SEC == 1000000
MILLIS_PER_SEC == 1000
SECS_PER_MINUTE == 60
SECS_PER_HOUR == 3600
SECS_PER_DAY == 86400
SECS_PER_WEEK == 604800

TimeDelta(secs, nanos) == [secs |-> secs, nanos |-> nanos]

MIN ==
    TimeDelta(BSub(TruncDiv(BNeg(I64_MAX), FromInt(MILLIS_PER_SEC)), One),
              NANOS_PER_SEC
                + ToInt(TruncRem(BNeg(I64_MAX), FromInt(MILLIS_PER_SEC))) * NANOS_PER_MILLI)
MAX ==
    TimeDelta(TruncDiv(I64_MAX, FromInt(MILLIS_PER_SEC)),
              ToInt(TruncRem(I64_MAX, FromInt(MILLIS_PER_SEC))) * NANOS_PER_MILLI)

\* What a call returns: `kind` is "Value" (a plain return), "Ok", "Some", "None",
\* an Error variant, "OutOfRangeError", or "Panic"; `val` is the TimeDelta returned.
Ret(kind, val) == [kind |-> kind, val |-> val]
Fail(kind) == [kind |-> kind, val |-> TimeDelta(Zero, 0)]
Returned(r) == r.kind \in {"Value", "Ok", "Some"}

\* `let v = e;`: e is evaluated once, and then Body with v bound to its value
Let(e, Body(_)) == CHOOSE r \in {Body(v) : v \in {e}} : TRUE

VARIABLES
    overflow_checks, \* the build: TRUE panics on integer overflow (debug), FALSE wraps
    cur,             \* the TimeDelta the program holds
    op,              \* the last operation called
    recv,            \* its receiver
    arg,             \* its arguments
    out,             \* what it returned
    live,            \* the program holds a value and has not panicked or read it
    steps            \* operations applied since the value was constructed
vars == <<overflow_checks, cur, op, recv, arg, out, live, steps>>

\* an arithmetic expression with exact results xs panics in a build with overflow checks
Overflows(xs) == overflow_checks /\ \E i \in DOMAIN xs : ~InI64(xs[i])

div_mod_floor_64(this, other) == EuclidOf(TruncDivRem(this, other), other)

\* fault: new comparing only the seconds with those of MIN and MAX
new_secs_only(secs, nanos) ==
    IF BLe(FromInt(1000000000), nanos) THEN Fail("InvalidArgument")
    ELSE IF BLt(secs, MIN.secs) \/ BLt(MAX.secs, secs) THEN Fail("OutOfRange")
    ELSE Ret("Ok", TimeDelta(secs, ToInt(nanos)))
new(secs, nanos) ==
    IF BLe(FromInt(1000000000), nanos) THEN Fail("InvalidArgument")
    ELSE IF \/ BLt(secs, MIN.secs)
            \/ BLt(MAX.secs, secs)
            \/ (secs = MAX.secs /\ ToInt(nanos) > MAX.nanos)
            \/ (secs = MIN.secs /\ ToInt(nanos) < MIN.nanos)
         THEN Fail("OutOfRange")
    ELSE Ret("Ok", TimeDelta(secs, ToInt(nanos)))

\* Option::expect / Result::expect: the value, or a panic
expect(r) == IF r.kind \in {"Ok", "Some"} THEN Ret("Value", r.val) ELSE Fail("Panic")

\* fault: the multiplication done in i32, without `count as i64`
unit_constructor_i32(count, unit) ==
    IF overflow_checks /\ ~InI32(BMul(count, FromInt(unit))) THEN Fail("Panic")
    ELSE expect(new(WrapI32(BMul(count, FromInt(unit))), Zero))
\* expect(ok!(TimeDelta::new(count as i64 * unit, 0)), "always in range")
unit_constructor(count, unit) ==
    Let(BMul(count, FromInt(unit)), LAMBDA secs :
        IF Overflows(<<secs>>) THEN Fail("Panic") ELSE expect(new(WrapI64(secs), Zero)))
weeks(n) == unit_constructor(n, SECS_PER_WEEK)
days(n) == unit_constructor(n, SECS_PER_DAY)
hours(n) == unit_constructor(n, SECS_PER_HOUR)
minutes(n) == unit_constructor(n, SECS_PER_MINUTE)
seconds(n) == expect(new(n, Zero))

\* fault: milliseconds with `/` and `%` in place of div_euclid and rem_euclid
milliseconds_truncating(ms) ==
    IF BLt(ms, BNeg(I64_MAX)) THEN Fail("OutOfRange")
    ELSE Let(TruncDivRem(ms, FromInt(MILLIS_PER_SEC)), LAMBDA dm :
             Ret("Ok", TimeDelta(dm[1], ToInt(dm[2]) * NANOS_PER_MILLI)))
milliseconds(ms) ==
    IF BLt(ms, BNeg(I64_MAX)) THEN Fail("OutOfRange")
    ELSE Let(div_mod_floor_64(ms, FromInt(MILLIS_PER_SEC)), LAMBDA dm :
             Ret("Ok", TimeDelta(dm[1], ToInt(dm[2]) * NANOS_PER_MILLI)))
microseconds(us) ==
    Let(div_mod_floor_64(us, FromInt(MICROS_PER_SEC)), LAMBDA dm :
        Ret("Value", TimeDelta(dm[1], ToInt(dm[2]) * NANOS_PER_MICRO)))
nanoseconds(ns) ==
    Let(div_mod_floor_64(ns, FromInt(NANOS_PER_SEC)), LAMBDA dm :
        Ret("Value", TimeDelta(dm[1], ToInt(dm[2]))))
zero == Ret("Value", TimeDelta(Zero, 0))

\* i32 `/` by a positive constant, truncated toward zero
TruncDivInt(a, b) == IF a >= 0 THEN a \div b ELSE -((-a) \div b)

\* What an accessor returns: `kind` as above, `n` the i64 returned.
RetN(kind, n) == [kind |-> kind, n |-> n]

\* an i64 expression with exact result x: a panic on overflow in a build with overflow
\* checks, the wrapped value otherwise
Arith(x) == IF Overflows(<<x>>) THEN RetN("Panic", Zero) ELSE RetN("Value", WrapI64(x))

\* fault: num_seconds returning the stored seconds
num_seconds_stored(self) == RetN("Value", self.secs)
num_seconds(self) ==
    IF BSign(self.secs) < 0 /\ self.nanos > 0
    THEN Arith(BAdd(self.secs, One))
    ELSE RetN("Value", self.secs)

subsec_nanos(self) ==
    IF BSign(self.secs) < 0 /\ self.nanos > 0 THEN self.nanos - NANOS_PER_SEC ELSE self.nanos

num_milliseconds(self) ==
    Let(num_seconds(self), LAMBDA s :
    Let(Arith(BMul(s.n, FromInt(MILLIS_PER_SEC))), LAMBDA secs_part :
        IF s.kind = "Panic" \/ secs_part.kind = "Panic" THEN RetN("Panic", Zero)
        ELSE Arith(BAdd(secs_part.n,
                        FromInt(TruncDivInt(subsec_nanos(self), NANOS_PER_MILLI))))))

\* i64::checked_mul / i64::checked_add
Checked(x) == IF InI64(x) THEN RetN("Some", x) ELSE RetN("None", Zero)
checked_mul_i64(a, b) == Checked(BMul(a, b))
checked_add_i64(a, b) == Checked(BAdd(a, b))

\* fault: num_microseconds from the stored seconds and nanos
num_microseconds_stored(self) ==
    Let(checked_mul_i64(self.secs, FromInt(MICROS_PER_SEC)), LAMBDA secs_part :
    Let(checked_add_i64(secs_part.n, FromInt(TruncDivInt(self.nanos, NANOS_PER_MICRO))),
        LAMBDA sum :
        IF secs_part.kind = "None" \/ sum.kind = "None" THEN RetN("OutOfRange", Zero)
        ELSE RetN("Ok", sum.n)))
num_microseconds(self) ==
    Let(num_seconds(self), LAMBDA s :
    Let(checked_mul_i64(s.n, FromInt(MICROS_PER_SEC)), LAMBDA secs_part :
    Let(checked_add_i64(secs_part.n,
                        FromInt(TruncDivInt(subsec_nanos(self), NANOS_PER_MICRO))),
        LAMBDA sum :
        IF s.kind = "Panic" THEN RetN("Panic", Zero)
        ELSE IF secs_part.kind = "None" \/ sum.kind = "None" THEN RetN("OutOfRange", Zero)
        ELSE RetN("Ok", sum.n))))

num_nanoseconds(self) ==
    Let(num_seconds(self), LAMBDA s :
    Let(checked_mul_i64(s.n, FromInt(NANOS_PER_SEC)), LAMBDA secs_part :
        IF s.kind = "Panic" THEN RetN("Panic", Zero)
        ELSE IF secs_part.kind = "None" THEN RetN("None", Zero)
        ELSE checked_add_i64(secs_part.n, FromInt(subsec_nanos(self)))))

\* `TimeDelta { secs, nanos }` where computing secs went through the exact i64 results
\* xs: a panic on overflow in a build with overflow checks, the wrapped value otherwise
Built(xs, secs, nanos) ==
    IF Overflows(xs) THEN Fail("Panic") ELSE Ret("Value", TimeDelta(WrapI64(secs), nanos))
\* ok!(TimeDelta::new(secs, nanos as u32)) after the same
Checked_new(xs, secs, nanos) ==
    IF Overflows(xs) THEN Fail("Panic")
    ELSE Let(new(WrapI64(secs), AsU32(nanos)), LAMBDA r :
             IF r.kind = "Ok" THEN Ret("Some", r.val) ELSE Fail("None"))

\* fault: checked_add without the carry into the seconds
checked_add_no_carry(self, rhs) ==
    Let(BAdd(self.secs, rhs.secs), LAMBDA secs :
        IF self.nanos + rhs.nanos >= NANOS_PER_SEC
        THEN Checked_new(<<secs>>, secs, self.nanos + rhs.nanos - NANOS_PER_SEC)
        ELSE Checked_new(<<secs>>, secs, self.nanos + rhs.nanos))
checked_add(self, rhs) ==
    Let(BAdd(self.secs, rhs.secs), LAMBDA secs :
        IF self.nanos + rhs.nanos >= NANOS_PER_SEC
        THEN Checked_new(<<secs, BAdd(secs, One)>>, BAdd(secs, One),
                         self.nanos + rhs.nanos - NANOS_PER_SEC)
        ELSE Checked_new(<<secs>>, secs, self.nanos + rhs.nanos))

checked_sub(self, rhs) ==
    Let(BSub(self.secs, rhs.secs), LAMBDA secs :
        IF self.nanos - rhs.nanos < 0
        THEN Checked_new(<<secs, BSub(secs, One)>>, BSub(secs, One),
                         self.nanos - rhs.nanos + NANOS_PER_SEC)
        ELSE Checked_new(<<secs>>, secs, self.nanos - rhs.nanos))

\* i64::abs: the one overflow is i64::MIN
abs_i64(x) == BAbs(x)

\* fault: abs taking the absolute value of the seconds alone
abs_of_secs(self) == Built(<<abs_i64(self.secs)>>, abs_i64(self.secs), self.nanos)
abs(self) ==
    IF BSign(self.secs) < 0 /\ self.nanos # 0
    THEN Let(BAdd(self.secs, One), LAMBDA s1 :
             Built(<<s1, abs_i64(s1)>>, abs_i64(s1), NANOS_PER_SEC - self.nanos))
    ELSE Built(<<abs_i64(self.secs)>>, abs_i64(self.secs), self.nanos)

\* fault: neg negating both fields
neg_both_fields(self) == Built(<<BNeg(self.secs)>>, BNeg(self.secs), -self.nanos)
neg(self) ==
    IF self.nanos = 0
    THEN Built(<<BNeg(self.secs)>>, BNeg(self.secs), 0)
    ELSE Built(<<BNeg(self.secs), BSub(BNeg(self.secs), One)>>,
               BSub(BNeg(self.secs), One), NANOS_PER_SEC - self.nanos)

\* `self + rhs`, `self - rhs`: checked_add / checked_sub and expect
add(self, rhs) == expect(checked_add(self, rhs))
sub(self, rhs) == expect(checked_sub(self, rhs))

\* fault: mul dividing the nanoseconds towards zero
mul_truncating(self, rhs) ==
    Let(BMul(FromInt(self.nanos), rhs), LAMBDA total_nanos :
    Let(TruncDivRem(WrapI64(total_nanos), FromInt(NANOS_PER_SEC)), LAMBDA dm :
    Let(BMul(self.secs, rhs), LAMBDA prod :
        Built(<<total_nanos, prod, BAdd(WrapI64(prod), dm[1])>>,
              BAdd(prod, dm[1]), ToInt(dm[2])))))
\* `self * rhs` for an i32 rhs
mul(self, rhs) ==
    Let(BMul(FromInt(self.nanos), rhs), LAMBDA total_nanos :
    Let(div_mod_floor_64(WrapI64(total_nanos), FromInt(NANOS_PER_SEC)), LAMBDA dm :
    Let(BMul(self.secs, rhs), LAMBDA prod :
        Built(<<total_nanos, prod, BAdd(WrapI64(prod), dm[1])>>,
              BAdd(prod, dm[1]), ToInt(dm[2])))))

\* `self / rhs` for an i32 rhs: dividing by zero, and i64::MIN / -1, panic in every build
div_adjust(secs0, nanos0, n0) ==
    LET up == n0 >= NANOS_PER_SEC
        n1 == IF up THEN n0 - NANOS_PER_SEC ELSE n0
        secs1 == IF up THEN BAdd(secs0, One) ELSE secs0
        down == n1 < 0
        n2 == IF down THEN n1 + NANOS_PER_SEC ELSE n1
        secs2 == IF down THEN BSub(secs1, One) ELSE secs1
    IN IF Overflows(<<secs1, secs2>>) \/ (overflow_checks /\ ~InI32(nanos0))
       THEN Fail("Panic")
       ELSE Ret("Value", TimeDelta(WrapI64(secs2), n2))
div(self, rhs) ==
    IF rhs = Zero \/ (self.secs = I64_MIN /\ rhs = BNeg(One)) THEN Fail("Panic")
    ELSE Let(TruncDiv(self.secs, rhs), LAMBDA secs :
         Let(BSub(self.secs, BMul(secs, rhs)), LAMBDA carry :
         Let(TruncDiv(BMul(carry, FromInt(NANOS_PER_SEC)), rhs), LAMBDA extra_nanos :
         Let(BAdd(TruncDiv(FromInt(self.nanos), rhs), WrapI32(extra_nanos)), LAMBDA nanos :
         div_adjust(secs, nanos, ToInt(WrapI32(nanos)))))))

\* core::time::Duration: u64 seconds and u32 nanoseconds below one second
Duration(secs, nanos) == [secs |-> secs, nanos |-> nanos]

\* fault: from_std comparing only the seconds with those of MAX
from_std_secs_only(duration) ==
    IF BLt(MAX.secs, duration.secs) THEN Fail("OutOfRangeError")
    ELSE Ret("Ok", TimeDelta(WrapI64(duration.secs), ToInt(duration.nanos)))
from_std(duration) ==
    IF BLt(MAX.secs, duration.secs) THEN Fail("OutOfRangeError")
    ELSE Let(new(WrapI64(duration.secs), duration.nanos), LAMBDA r :
             IF r.kind = "Ok" THEN Ret("Ok", r.val) ELSE Fail("OutOfRangeError"))

to_std(self) ==
    IF BSign(self.secs) < 0 THEN [kind |-> "OutOfRangeError", val |-> Duration(Zero, Zero)]
    ELSE [kind |-> "Ok", val |-> Duration(self.secs, AsU32(self.nanos))]

\* ---------------------------------------------------------------------
\* The state machine: a program that calls one constructor of TimeDelta,
\* applies up to MaxOps operations to the value, and may read it with an
\* accessor at the end. A panic, or a constructor that returns an error,
\* ends the program.
\* ---------------------------------------------------------------------
MaxOps == 1

\* arguments the operations are called with
I32Args == {I32_MIN, FromInt(-1), Zero, One, I32_MAX}
I64Args == {I64_MIN, BNeg(I64_MAX), FromInt(-1500), FromInt(-1001), FromInt(-1), Zero, One,
            FromInt(1500), I64_MAX}
\* <<secs, nanos>> around the ends of MIN..MAX, of the i64 range in nanoseconds and in
\* microseconds, and around the largest valid nanos
NewArgs == {
    <<I64_MIN, Zero>>, <<BSub(MIN.secs, One), FromInt(999999999)>>,
    <<MIN.secs, FromInt(192999999)>>, <<MIN.secs, FromInt(193000000)>>,
    <<BAdd(MIN.secs, One), Zero>>, <<FromInt(-1), FromInt(999999999)>>,
    <<FromInt(-1), FromInt(1000000000)>>, <<Zero, Zero>>, <<Zero, One>>,
    <<Zero, FromInt(999999999)>>, <<Zero, FromInt(1000000000)>>, <<One, U32_MAX>>,
    <<I64_MAX, FromInt(1000000000)>>, <<I64_MAX, Zero>>,
    <<BAdd(MAX.secs, One), Zero>>, <<MAX.secs, FromInt(807000001)>>,
    <<MAX.secs, FromInt(807000000)>>, <<BSub(MAX.secs, One), FromInt(999999999)>>,
    <<Lit(<<9, 223, 372, 036>>), FromInt(854775807)>>,
    <<Lit(<<9, 223, 372, 036>>), FromInt(854775808)>>,
    <<BNeg(Lit(<<9, 223, 372, 037>>)), FromInt(145224192)>>,
    <<BNeg(Lit(<<9, 223, 372, 037>>)), FromInt(145224191)>>,
    <<Lit(<<9, 223, 372, 036, 854>>), FromInt(775807999)>>,
    <<Lit(<<9, 223, 372, 036, 854>>), FromInt(775808000)>>,
    <<BNeg(Lit(<<9, 223, 372, 036, 855>>)), FromInt(224191001)>>,
    <<BNeg(Lit(<<9, 223, 372, 036, 855>>)), FromInt(224191000)>>}
\* <<secs, nanos>> of a core::time::Duration
StdArgs == {
    <<Zero, Zero>>, <<One, FromInt(999999999)>>, <<BSub(MAX.secs, One), FromInt(999999999)>>,
    <<MAX.secs, FromInt(807000000)>>, <<MAX.secs, FromInt(807000001)>>,
    <<BAdd(MAX.secs, One), Zero>>, <<BAdd(I64_MAX, One), Zero>>,
    <<U64_MAX, FromInt(999999999)>>}
Operands == {nanoseconds(One).val, milliseconds(FromInt(-1500)).val, MIN, MAX}
MulArgs == {I32_MIN, FromInt(-1), Zero, FromInt(2), I32_MAX}
DivArgs == {I32_MIN, FromInt(-1), Zero, FromInt(2), FromInt(3), FromInt(-7), I32_MAX}

Args(n, m, rhs) == [n |-> n, m |-> m, rhs |-> rhs]
NoRhs == TimeDelta(Zero, 0)

\* the constructor was called: the program holds what it returned
Constructed(name, a, r) ==
    /\ op = "start"
    /\ op' = name
    /\ recv' = NoRhs
    /\ arg' = a
    /\ out' = r
    /\ cur' = IF Returned(r) THEN r.val ELSE cur
    /\ live' = Returned(r)
    /\ UNCHANGED <<overflow_checks, steps>>

\* an operation was applied to the value held, which becomes what it returned
Applied(name, a, r) ==
    /\ live
    /\ steps < MaxOps
    /\ op' = name
    /\ recv' = cur
    /\ arg' = a
    /\ out' = r
    /\ cur' = IF Returned(r) THEN r.val ELSE cur
    /\ live' = (r.kind # "Panic")
    /\ steps' = steps + 1
    /\ UNCHANGED overflow_checks

\* the value held was read with an accessor
Read(name, r) ==
    /\ live
    /\ op' = name
    /\ recv' = cur
    /\ arg' = Args(Zero, Zero, NoRhs)
    /\ out' = r
    /\ live' = FALSE
    /\ UNCHANGED <<overflow_checks, cur, steps>>

Init ==
    /\ overflow_checks \in BOOLEAN
    /\ cur = TimeDelta(Zero, 0)
    /\ op = "start"
    /\ recv = NoRhs
    /\ arg = Args(Zero, Zero, NoRhs)
    /\ out = Fail("start")
    /\ live = FALSE
    /\ steps = 0

New == \E a \in NewArgs : Constructed("new", Args(a[1], a[2], NoRhs), new(a[1], a[2]))
Weeks == \E n \in I32Args : Constructed("weeks", Args(n, Zero, NoRhs), weeks(n))
Days == \E n \in I32Args : Constructed("days", Args(n, Zero, NoRhs), days(n))
Hours == \E n \in I32Args : Constructed("hours", Args(n, Zero, NoRhs), hours(n))
Minutes == \E n \in I32Args : Constructed("minutes", Args(n, Zero, NoRhs), minutes(n))
Seconds == \E n \in I32Args : Constructed("seconds", Args(n, Zero, NoRhs), seconds(n))
Milliseconds == \E n \in I64Args :
    Constructed("milliseconds", Args(n, Zero, NoRhs), milliseconds(n))
Microseconds == \E n \in I64Args :
    Constructed("microseconds", Args(n, Zero, NoRhs), microseconds(n))
Nanoseconds == \E n \in I64Args :
    Constructed("nanoseconds", Args(n, Zero, NoRhs), nanoseconds(n))
ZeroValue == Constructed("zero", Args(Zero, Zero, NoRhs), zero)
FromStd == \E a \in StdArgs :
    Constructed("from_std", Args(a[1], a[2], NoRhs), from_std(Duration(a[1], a[2])))

CheckedAdd == \E rhs \in Operands :
    Applied("checked_add", Args(Zero, Zero, rhs), checked_add(cur, rhs))
CheckedSub == \E rhs \in Operands :
    Applied("checked_sub", Args(Zero, Zero, rhs), checked_sub(cur, rhs))
Add == \E rhs \in Operands : Applied("add", Args(Zero, Zero, rhs), add(cur, rhs))
Sub == \E rhs \in Operands : Applied("sub", Args(Zero, Zero, rhs), sub(cur, rhs))
Abs == Applied("abs", Args(Zero, Zero, NoRhs), abs(cur))
Neg == Applied("neg", Args(Zero, Zero, NoRhs), neg(cur))
Mul == \E k \in MulArgs : Applied("mul", Args(k, Zero, NoRhs), mul(cur, k))
Div == \E k \in DivArgs : Applied("div", Args(k, Zero, NoRhs), div(cur, k))

NumSeconds == Read("num_seconds", num_seconds(cur))
NumMicroseconds == Read("num_microseconds", num_microseconds(cur))
NumNanoseconds == Read("num_nanoseconds", num_nanoseconds(cur))
ToStd == Read("to_std", to_std(cur))

Next ==
    \/ New \/ Weeks \/ Days \/ Hours \/ Minutes \/ Seconds
    \/ Milliseconds \/ Microseconds \/ Nanoseconds \/ ZeroValue \/ FromStd
    \/ CheckedAdd \/ CheckedSub \/ Add \/ Sub \/ Abs \/ Neg \/ Mul \/ Div
    \/ NumSeconds \/ NumMicroseconds \/ NumNanoseconds \/ ToStd

Spec == Init /\ [][Next]_vars

\* ---------------------------------------------------------------------
\* Properties
\* ---------------------------------------------------------------------
\* the exact duration of <<secs, nanos>> in nanoseconds
TotalOf(secs, nanos) == BAdd(BMul(secs, FromInt(1000000000)), nanos)
total_nanos(d) == TotalOf(d.secs, FromInt(d.nanos))
\* -i64::MAX and i64::MAX milliseconds, in nanoseconds
MinTotal == BMul(BNeg(I64_MAX), FromInt(1000000))
MaxTotal == BMul(I64_MAX, FromInt(1000000))
WithinRange(t) == BLe(MinTotal, t) /\ BLe(t, MaxTotal)
InRangeTD(d) == d.nanos >= 0 /\ d.nanos < 1000000000 /\ WithinRange(total_nanos(d))

\* C1: the nanos field of every TimeDelta the program comes to hold, whatever the
\* constructor and the operations applied to it, is at least 0 and below 1_000_000_000.
C1_NanosNormalised ==
    /\ cur.nanos >= 0 /\ cur.nanos < 1000000000
    /\ (op \notin {"start", "num_seconds", "num_microseconds", "num_nanoseconds", "to_std"}
            /\ Returned(out))
        => (out.val.nanos >= 0 /\ out.val.nanos < 1000000000)

\* C2: new(secs, nanos) is Err(InvalidArgument) when nanos >= 1_000_000_000, whatever
\* secs is; otherwise Err(OutOfRange) exactly when secs * 10^9 + nanos is outside
\* -i64::MAX * 10^6 .. i64::MAX * 10^6; otherwise Ok of secs and nanos as given. The
\* nanos of MIN and MAX are 193_000_000 and 807_000_000.
C2_New ==
    /\ MIN.nanos = 193000000 /\ MAX.nanos = 807000000
    /\ total_nanos(MIN) = MinTotal /\ total_nanos(MAX) = MaxTotal
    /\ op = "new" =>
        IF BLe(FromInt(1000000000), arg.m) THEN out.kind = "InvalidArgument"
        ELSE IF ~WithinRange(TotalOf(arg.n, arg.m)) THEN out.kind = "OutOfRange"
        ELSE out = Ret("Ok", TimeDelta(arg.n, ToInt(arg.m)))
\* new was called with the seconds of MAX and one nanosecond more than MAX has
C2_Witness ==
    /\ op = "new" /\ arg.n = MAX.secs /\ arg.m = FromInt(807000001)
    /\ out.kind = "OutOfRange"

\* C3: for a and b within MIN..MAX, a.checked_add(b) (a.checked_sub(b)) is Some(r) with
\* r the exact sum (difference) when that lies within MIN..MAX, and None otherwise; it
\* never panics and never returns a wrapped value.
C3_CheckedAddSub ==
    (op \in {"checked_add", "checked_sub"} /\ InRangeTD(recv) /\ InRangeTD(arg.rhs)) =>
        LET exact == IF op = "checked_add"
                     THEN BAdd(total_nanos(recv), total_nanos(arg.rhs))
                     ELSE BSub(total_nanos(recv), total_nanos(arg.rhs))
        IN IF WithinRange(exact)
           THEN out.kind = "Some" /\ InRangeTD(out.val) /\ total_nanos(out.val) = exact
           ELSE out.kind = "None"
\* one nanosecond was added to MAX
C3_Witness ==
    /\ op = "checked_add" /\ recv = MAX /\ arg.rhs = TimeDelta(Zero, 1)
    /\ out.kind = "None"

\* C4: for d within MIN..MAX and an i32 k, `d * k` panics or returns a TimeDelta within
\* MIN..MAX: when the exact product is outside MIN..MAX it panics, as `+` and `-` do.
C4_MulPanicsOrInRange ==
    (op = "mul" /\ InRangeTD(recv)) =>
        IF WithinRange(BMul(total_nanos(recv), arg.n))
        THEN out.kind = "Value" /\ total_nanos(out.val) = BMul(total_nanos(recv), arg.n)
        ELSE out.kind = "Panic"

\* C5: for d within MIN..MAX, -d is within MIN..MAX and its total is minus the total of
\* d (so -MIN = MAX and -MAX = MIN), -(-d) = d, d.abs() = (-d).abs(), and d.abs() is not
\* negative and is d or -d (so MIN.abs() = MAX).
C5_NegAbs ==
    (op \in {"neg", "abs"} /\ InRangeTD(recv)) =>
        LET minus == neg(recv)
            absolute == abs(recv)
        IN /\ out = (IF op = "neg" THEN minus ELSE absolute)
           /\ minus.kind = "Value" /\ InRangeTD(minus.val)
           /\ total_nanos(minus.val) = BNeg(total_nanos(recv))
           /\ neg(minus.val) = Ret("Value", recv)
           /\ absolute.kind = "Value" /\ absolute = abs(minus.val)
           /\ BSign(total_nanos(absolute.val)) >= 0
           /\ absolute.val \in {recv, minus.val}
           /\ (recv = MIN => minus.val = MAX /\ absolute.val = MAX)
           /\ (recv = MAX => minus.val = MIN)
\* MIN was negated
C5_Witness == op = "neg" /\ recv = MIN /\ out = Ret("Value", MAX)

\* C6: for d within MIN..MAX, subsec_nanos() + num_seconds() * 1_000_000_000 is the exact
\* total of d; num_seconds() is that total truncated toward zero (secs + 1 when
\* secs < 0 and nanos > 0); subsec_nanos() is above -1_000_000_000 and below
\* 1_000_000_000 and its sign is never opposite to that of num_seconds().
C6_SecondsAndSubsec ==
    (op = "num_seconds" /\ InRangeTD(recv)) =>
        LET frac == subsec_nanos(recv)
        IN /\ out.kind = "Value"
           /\ BAdd(FromInt(frac), BMul(out.n, FromInt(1000000000))) = total_nanos(recv)
           /\ out.n = TruncDiv(total_nanos(recv), FromInt(1000000000))
           /\ (BSign(recv.secs) < 0 /\ recv.nanos > 0) => out.n = BAdd(recv.secs, One)
           /\ frac > -1000000000 /\ frac < 1000000000
           /\ ~(BSign(out.n) > 0 /\ frac < 0) /\ ~(BSign(out.n) < 0 /\ frac > 0)
\* the seconds of a negative value with a fraction of a second were read
C6_Witness ==
    /\ op = "num_seconds" /\ InRangeTD(recv) /\ BSign(recv.secs) < 0 /\ recv.nanos > 0
    /\ out.n = BAdd(recv.secs, One) /\ BSign(out.n) < 0

\* C7: milliseconds(ms) is Err(OutOfRange) exactly for i64::MIN; for any other ms it is
\* Ok(d) with d.secs = floor(ms / 1000) and d.nanos = (ms mod 1000) * 1_000_000 (-1500 ms
\* is secs -2, nanos 500_000_000), d within MIN..MAX and d.num_milliseconds() = ms;
\* milliseconds(i64::MAX) = MAX and milliseconds(-i64::MAX) = MIN.
C7_Milliseconds ==
    op = "milliseconds" =>
        IF arg.n = I64_MIN THEN out.kind = "OutOfRange"
        ELSE /\ out.kind = "Ok" /\ InRangeTD(out.val)
             \* with 0 <= nanos < 10^9, the floor quotient and remainder are the only
             \* pair with this total
             /\ total_nanos(out.val) = BMul(arg.n, FromInt(1000000))
             /\ out.val.nanos % 1000000 = 0
             /\ num_milliseconds(out.val) = RetN("Value", arg.n)
             /\ (arg.n = FromInt(-1500) => out.val = TimeDelta(FromInt(-2), 500000000))
             /\ (arg.n = I64_MAX => out.val = MAX)
             /\ (arg.n = BNeg(I64_MAX) => out.val = MIN)
\* milliseconds(-1500) was called
C7_Witness ==
    /\ op = "milliseconds" /\ arg.n = FromInt(-1500)
    /\ out = Ret("Ok", TimeDelta(FromInt(-2), 500000000))

\* seconds in the unit of a constructor
UnitSeconds(name) ==
    CASE name = "weeks" -> 604800 [] name = "days" -> 86400 [] name = "hours" -> 3600
      [] name = "minutes" -> 60 [] OTHER -> 1
\* nanoseconds in the unit of a constructor
UnitNanos(name) == IF name = "microseconds" THEN 1000 ELSE 1

\* C8: weeks, days, hours, minutes and seconds of any i32, and microseconds and
\* nanoseconds of any i64, never panic and return a value within MIN..MAX (the exact
\* number of units asked for).
C8_InfallibleConstructors ==
    /\ op \in {"weeks", "days", "hours", "minutes", "seconds"} =>
        /\ out.kind = "Value" /\ InRangeTD(out.val)
        /\ total_nanos(out.val)
             = BMul(BMul(arg.n, FromInt(UnitSeconds(op))), FromInt(1000000000))
    /\ op \in {"microseconds", "nanoseconds"} =>
        /\ out.kind = "Value" /\ InRangeTD(out.val)
        /\ total_nanos(out.val) = BMul(arg.n, FromInt(UnitNanos(op)))
\* weeks(i32::MIN) was called
C8_Witness ==
    /\ op = "weeks" /\ arg.n = I32_MIN /\ out.kind = "Value"
    /\ out.val.secs = BMul(I32_MIN, FromInt(604800))

\* C9: for d within MIN..MAX, num_nanoseconds() is Some(total of d) when that total
\* fits an i64 and None otherwise; num_microseconds() is Ok(total truncated toward
\* zero to microseconds) when that fits an i64 and Err(OutOfRange) otherwise. So
\* nanoseconds(x).num_nanoseconds() = Some(x) and microseconds(x).num_microseconds()
\* = Ok(x) for every i64 x, and both fail for MIN and for MAX.
C9_NumMicrosNanos ==
    /\ (op = "num_nanoseconds" /\ InRangeTD(recv)) =>
        IF InI64(total_nanos(recv)) THEN out = RetN("Some", total_nanos(recv))
        ELSE out.kind = "None"
    /\ (op = "num_microseconds" /\ InRangeTD(recv)) =>
        IF InI64(TruncDiv(total_nanos(recv), FromInt(1000)))
        THEN out = RetN("Ok", TruncDiv(total_nanos(recv), FromInt(1000)))
        ELSE out.kind = "OutOfRange"
    /\ op = "nanoseconds" => num_nanoseconds(out.val) = RetN("Some", arg.n)
    /\ op = "microseconds" => num_microseconds(out.val) = RetN("Ok", arg.n)
    /\ (op = "num_nanoseconds" /\ recv \in {MIN, MAX}) => out.kind = "None"
    /\ (op = "num_microseconds" /\ recv \in {MIN, MAX}) => out.kind = "OutOfRange"
\* the microseconds of a value 999 nanoseconds short of one microsecond below
\* i64::MIN microseconds were read
C9_Witness ==
    /\ op = "num_microseconds" /\ recv.nanos = 224191001 /\ BSign(recv.secs) < 0
    /\ out = RetN("Ok", I64_MIN)

\* C10: from_std(x) is an error exactly when x is more than MAX (more seconds than
\* 9_223_372_036_854_775, or as many and more than 807_000_000 nanoseconds) and
\* otherwise Ok of the equal duration; to_std(d) is an error exactly when d is
\* negative, and otherwise Ok of the equal duration; from_std(x).to_std() = Ok(x) for
\* every x from_std accepts.
C10_StdConversions ==
    /\ op = "from_std" =>
        IF \/ BLt(Lit(<<9, 223, 372, 036, 854, 775>>), arg.n)
           \/ (arg.n = Lit(<<9, 223, 372, 036, 854, 775>>) /\ BLt(FromInt(807000000), arg.m))
        THEN out.kind = "OutOfRangeError" /\ BLt(MaxTotal, TotalOf(arg.n, arg.m))
        ELSE /\ out.kind = "Ok" /\ total_nanos(out.val) = TotalOf(arg.n, arg.m)
             /\ out.val.nanos >= 0 /\ out.val.nanos < 1000000000
             /\ to_std(out.val) = [kind |-> "Ok", val |-> Duration(arg.n, arg.m)]
    /\ op = "to_std" =>
        IF BSign(total_nanos(recv)) < 0 THEN out.kind = "OutOfRangeError"
        ELSE out.kind = "Ok" /\ TotalOf(out.val.secs, out.val.nanos) = total_nanos(recv)
\* from_std was called with the seconds of MAX and one nanosecond more than MAX has
C10_Witness ==
    /\ op = "from_std" /\ arg.n = MAX.secs /\ arg.m = FromInt(807000001)
    /\ out.kind = "OutOfRangeError"

\* ---------------------------------------------------------------------
\* Sequences of operations: a constructor, then up to MaxSeq operations, each
\* applied to the value the one before returned (so that the out-of-range and
\* the wrapped values of `*` are receivers too). A panic, or a constructor
\* that returns an error, ends the program.
\* ---------------------------------------------------------------------
MaxSeq == 3

\* arguments of the constructors: one or two each, with the ends of MIN..MAX, negative
\* values with a fraction of a second, and arguments that are refused
SeqNewArgs == {<<FromInt(-1), FromInt(999999999)>>, <<MIN.secs, FromInt(193000000)>>,
               <<Zero, FromInt(1000000000)>>}
SeqStdArgs == {<<One, FromInt(999999999)>>, <<MAX.secs, FromInt(807000001)>>}
SeqOperands == {TimeDelta(Zero, 1), MAX}
SeqFactors == {FromInt(-1), FromInt(2), I32_MAX}
SeqDivisors == {Zero, FromInt(3), FromInt(-7), I32_MIN}

\* an operation was applied to the value held, which becomes what it returned
Sequenced(name, a, r) ==
    /\ live
    /\ steps < MaxSeq
    /\ op' = name
    /\ recv' = cur
    /\ arg' = a
    /\ out' = r
    /\ cur' = IF Returned(r) THEN r.val ELSE cur
    /\ live' = (r.kind # "Panic")
    /\ steps' = steps + 1
    /\ UNCHANGED overflow_checks

SeqNext ==
    \/ \E a \in SeqNewArgs : Constructed("new", Args(a[1], a[2], NoRhs), new(a[1], a[2]))
    \/ \E n \in {I32_MIN} : Constructed("weeks", Args(n, Zero, NoRhs), weeks(n))
    \/ \E n \in {FromInt(-1)} : Constructed("days", Args(n, Zero, NoRhs), days(n))
    \/ \E n \in {I32_MAX} : Constructed("hours", Args(n, Zero, NoRhs), hours(n))
    \/ \E n \in {One} : Constructed("minutes", Args(n, Zero, NoRhs), minutes(n))
    \/ \E n \in {I32_MIN} : Constructed("seconds", Args(n, Zero, NoRhs), seconds(n))
    \/ \E n \in {FromInt(-1500), I64_MAX} :
           Constructed("milliseconds", Args(n, Zero, NoRhs), milliseconds(n))
    \/ \E n \in {FromInt(-1001), I64_MIN} :
           Constructed("microseconds", Args(n, Zero, NoRhs), microseconds(n))
    \/ \E n \in {One, I64_MAX} :
           Constructed("nanoseconds", Args(n, Zero, NoRhs), nanoseconds(n))
    \/ Constructed("zero", Args(Zero, Zero, NoRhs), zero)
    \/ \E a \in SeqStdArgs :
           Constructed("from_std", Args(a[1], a[2], NoRhs), from_std(Duration(a[1], a[2])))
    \/ \E rhs \in SeqOperands :
           Sequenced("checked_add", Args(Zero, Zero, rhs), checked_add(cur, rhs))
    \/ \E rhs \in SeqOperands :
           Sequenced("checked_sub", Args(Zero, Zero, rhs), checked_sub(cur, rhs))
    \/ Sequenced("abs", Args(Zero, Zero, NoRhs), abs(cur))
    \/ Sequenced("neg", Args(Zero, Zero, NoRhs), neg(cur))
    \/ \E k \in SeqFactors : Sequenced("mul", Args(k, Zero, NoRhs), mul(cur, k))
    \/ \E k \in SeqDivisors : Sequenced("div", Args(k, Zero, NoRhs), div(cur, k))
SpecSeq == Init /\ [][SeqNext]_vars

\* a division by a negative number was applied to a value beyond MAX that `*` had
\* returned, and gave a value with a fraction of a second
C1_Witness ==
    /\ op = "div" /\ steps >= 2 /\ out.kind = "Value" /\ BSign(arg.n) < 0
    /\ BLt(MaxTotal, total_nanos(recv)) /\ out.val.nanos > 0

\* ------------------------------------------------------------------------
\* The calendar date and the time of day that NaiveDateTime is made of.
\* ------------------------------------------------------------------------

\* the total number of whole days in the TimeDelta
num_days(self) ==
    Let(num_seconds(self), LAMBDA s :
        IF s.kind = "Panic" THEN s ELSE RetN("Value", TruncDiv(s.n, FromInt(SECS_PER_DAY))))

\* A calendar date of the proleptic Gregorian calendar, years MIN_YEAR..MAX_YEAR.
MIN_YEAR == -262143
MAX_YEAR == 262142
NaiveDate(year, month, day) == [year |-> year, month |-> month, day |-> day]
NaiveDate_MIN == NaiveDate(MIN_YEAR, 1, 1)
NaiveDate_MAX == NaiveDate(MAX_YEAR, 12, 31)
\* one day before MIN and one day after MAX: dates that only the offset
\* arithmetic produces
NaiveDate_BEFORE_MIN == NaiveDate(MIN_YEAR - 1, 12, 31)
NaiveDate_AFTER_MAX == NaiveDate(MAX_YEAR + 1, 1, 1)

is_leap_year(year) == year % 4 = 0 /\ (year % 100 # 0 \/ year % 400 = 0)
days_in_year(year) == IF is_leap_year(year) THEN 366 ELSE 365
days_in_month(year, month) ==
    IF month = 2 THEN (IF is_leap_year(year) THEN 29 ELSE 28)
    ELSE IF month \in {4, 6, 9, 11} THEN 30
    ELSE 31
RECURSIVE days_before_month(_, _)
days_before_month(year, month) ==
    IF month <= 1 THEN 0
    ELSE days_before_month(year, month - 1) + days_in_month(year, month - 1)
\* the day of the year, starting from 1
ordinal(date) == days_before_month(date.year, date.month) + date.day
RECURSIVE month_of_ordinal(_, _, _)
month_of_ordinal(year, ord, month) ==
    IF ord <= days_before_month(year, month + 1) THEN month
    ELSE month_of_ordinal(year, ord, month + 1)
from_yo(year, ord) ==
    Let(month_of_ordinal(year, ord, 1), LAMBDA month :
        NaiveDate(year, month, ord - days_before_month(year, month)))

\* the number of days since January 1, 1 (day 1) in the proleptic Gregorian
\* calendar, and the date of a number of days
num_days_from_ce(date) ==
    Let(date.year - 1, LAMBDA y :
        365 * y + (y \div 4) - (y \div 100) + (y \div 400) + ordinal(date))
DAYS_PER_400Y == 146097
DAYS_PER_100Y == 36524
DAYS_PER_4Y == 1461
AtMost3(n) == IF n > 3 THEN 3 ELSE n
from_year_and_rest(year, rest) ==
    Let(AtMost3(rest \div 365), LAMBDA c1 : from_yo(year + c1 + 1, rest - 365 * c1 + 1))
from_century_and_rest(year, rest) ==
    Let(AtMost3(rest \div DAYS_PER_100Y), LAMBDA c100 :
    Let(rest - DAYS_PER_100Y * c100, LAMBDA r :
        from_year_and_rest(year + 100 * c100 + 4 * (r \div DAYS_PER_4Y), r % DAYS_PER_4Y)))
from_num_days_from_ce(n) ==
    from_century_and_rest(400 * ((n - 1) \div DAYS_PER_400Y), (n - 1) % DAYS_PER_400Y)

\* NaiveDate::from_ymd
from_ymd(year, month, day) ==
    IF year < MIN_YEAR \/ year > MAX_YEAR THEN Fail("OutOfRange")
    ELSE IF month < 1 \/ month > 12 \/ day < 1 \/ day > 31 THEN Fail("InvalidArgument")
    ELSE IF day > days_in_month(year, month) THEN Fail("DoesNotExist")
    ELSE Ret("Ok", NaiveDate(year, month, day))

\* the date `count` days after self (count is a wide integer), or OutOfRange
add_days(self, count) ==
    Let(BAdd(FromInt(num_days_from_ce(self)), count), LAMBDA n :
        IF \/ BLt(n, FromInt(num_days_from_ce(NaiveDate_MIN)))
           \/ BLt(FromInt(num_days_from_ce(NaiveDate_MAX)), n)
        THEN Fail("OutOfRange")
        ELSE Ret("Ok", from_num_days_from_ce(ToInt(n))))

\* NaiveDate::checked_add_signed / checked_sub_signed: the whole days of rhs
NaiveDate_checked_add_signed(self, rhs) ==
    Let(num_days(rhs).n, LAMBDA d :
        IF ~InI32(d) THEN Fail("OutOfRange") ELSE add_days(self, d))
NaiveDate_checked_sub_signed(self, rhs) ==
    Let(BNeg(num_days(rhs).n), LAMBDA d :
        IF ~InI32(d) THEN Fail("OutOfRange") ELSE add_days(self, d))

\* NaiveDate::checked_add_days / checked_sub_days: Days holds a u64
NaiveDate_checked_add_days(self, d) ==
    IF BLt(I32_MAX, d) THEN Fail("OutOfRange") ELSE add_days(self, d)
NaiveDate_checked_sub_days(self, d) ==
    IF BLt(I32_MAX, d) THEN Fail("OutOfRange") ELSE add_days(self, BNeg(d))

\* NaiveDate::pred / succ: the previous and the next day
pred(self) == add_days(self, FromInt(-1))
succ(self) == add_days(self, One)

\* the date `months` (an i32) months away, the day clamped to the last day of
\* the resulting month
clamped(year, month, day) ==
    IF year < MIN_YEAR \/ year > MAX_YEAR THEN Fail("None")
    ELSE IF day > days_in_month(year, month)
    THEN Ret("Some", NaiveDate(year, month, days_in_month(year, month)))
    ELSE Ret("Some", NaiveDate(year, month, day))
diff_months(self, months) ==
    Let(TruncDivInt(months, 12), LAMBDA years :
    Let(self.month - 1 + (months - 12 * years), LAMBDA m0 :
        IF m0 < 0 THEN clamped(self.year + years - 1, m0 + 13, self.day)
        ELSE IF m0 >= 12 THEN clamped(self.year + years + 1, m0 - 11, self.day)
        ELSE clamped(self.year + years, m0 + 1, self.day)))
\* NaiveDate::checked_add_months / checked_sub_months: Months holds a u32
NaiveDate_checked_add_months(self, months) ==
    IF months = Zero THEN Ret("Some", self)
    ELSE IF BLt(I32_MAX, months) THEN Fail("None")
    ELSE diff_months(self, ToInt(months))
NaiveDate_checked_sub_months(self, months) ==
    IF months = Zero THEN Ret("Some", self)
    ELSE IF BLt(I32_MAX, months) THEN Fail("None")
    ELSE diff_months(self, -ToInt(months))

\* NaiveDate::with_year (an i32), with_month, with_day, with_ordinal (a u32 each)
NaiveDate_with_year(self, year) ==
    IF BLt(year, FromInt(MIN_YEAR)) \/ BLt(FromInt(MAX_YEAR), year) THEN Fail("OutOfRange")
    ELSE IF self.day > days_in_month(ToInt(year), self.month) THEN Fail("DoesNotExist")
    ELSE Ret("Ok", NaiveDate(ToInt(year), self.month, self.day))
NaiveDate_with_month(self, month) ==
    IF BLt(month, One) \/ BLt(FromInt(12), month) THEN Fail("InvalidArgument")
    ELSE IF self.day > days_in_month(self.year, ToInt(month)) THEN Fail("DoesNotExist")
    ELSE Ret("Ok", NaiveDate(self.year, ToInt(month), self.day))
NaiveDate_with_day(self, day) ==
    IF BLt(day, One) \/ BLt(FromInt(31), day) THEN Fail("InvalidArgument")
    ELSE IF ToInt(day) > days_in_month(self.year, self.month) THEN Fail("DoesNotExist")
    ELSE Ret("Ok", NaiveDate(self.year, self.month, ToInt(day)))
NaiveDate_with_ordinal(self, ord) ==
    IF BLt(ord, One) \/ BLt(FromInt(days_in_year(self.year)), ord) THEN Fail("None")
    ELSE Ret("Some", from_yo(self.year, ToInt(ord)))

\* NaiveDate::signed_duration_since: the days from rhs to self, as a TimeDelta
NaiveDate_signed_duration_since(self, rhs) ==
    TimeDelta(BMul(FromInt(num_days_from_ce(self) - num_days_from_ce(rhs)),
                   FromInt(SECS_PER_DAY)), 0)

\* A time of day: `secs` seconds since midnight (0..86399) and `frac` nanoseconds
\* since the whole second (0..1_999_999_999; from 1_000_000_000 on, in the leap
\* second that follows second `secs`).
NaiveTime(secs, frac) == [secs |-> secs, frac |-> frac]
NaiveTime_MIN == NaiveTime(0, 0)
NaiveTime_MAX == NaiveTime(SECS_PER_DAY - 1, NANOS_PER_SEC - 1)
from_hms_nano(hour, min, sec, nano) == NaiveTime(hour * 3600 + min * 60 + sec, nano)

\* NaiveTime::overflowing_add_signed: the time after rhs, wrapped around the day,
\* and the whole seconds of the days wrapped over.  Only a time in a leap second
\* knows of a leap second, and only of its own.
wrapped_time(secs, frac) ==
    Let(rem_euclid(secs, FromInt(SECS_PER_DAY)), LAMBDA secs_in_day :
        <<NaiveTime(ToInt(secs_in_day), frac), BSub(secs, secs_in_day)>>)
carried_time(secs, frac) ==
    IF frac < 0 THEN wrapped_time(BSub(secs, One), frac + NANOS_PER_SEC)
    ELSE IF frac >= NANOS_PER_SEC THEN wrapped_time(BAdd(secs, One), frac - NANOS_PER_SEC)
    ELSE wrapped_time(secs, frac)
add_to_time(self, secs_to_add, frac_to_add) ==
    IF self.frac >= NANOS_PER_SEC
    THEN IF \/ BSign(secs_to_add) > 0
            \/ (frac_to_add > 0 /\ self.frac >= 2 * NANOS_PER_SEC - frac_to_add)
         THEN carried_time(BAdd(FromInt(self.secs), secs_to_add),
                           self.frac - NANOS_PER_SEC + frac_to_add)
         ELSE IF BSign(secs_to_add) < 0
         THEN carried_time(BAdd(FromInt(self.secs + 1), secs_to_add),
                           self.frac - NANOS_PER_SEC + frac_to_add)
         ELSE <<NaiveTime(self.secs, self.frac + frac_to_add), Zero>>
    ELSE carried_time(BAdd(FromInt(self.secs), secs_to_add), self.frac + frac_to_add)
NaiveTime_overflowing_add_signed(self, rhs) ==
    add_to_time(self, num_seconds(rhs).n, subsec_nanos(rhs))
NaiveTime_overflowing_sub_signed(self, rhs) ==
    Let(add_to_time(self, BNeg(num_seconds(rhs).n), -subsec_nanos(rhs)), LAMBDA tr :
        <<tr[1], BNeg(tr[2])>>)

\* A FixedOffset is its local_minus_utc: seconds, -86399..86399.
\* NaiveTime::overflowing_add_offset / overflowing_sub_offset: the time wrapped
\* around the day and the days wrapped over, -1, 0 or 1; frac is kept
NaiveTime_overflowing_add_offset(self, offset) ==
    <<NaiveTime((self.secs + offset) % SECS_PER_DAY, self.frac),
      (self.secs + offset) \div SECS_PER_DAY>>
NaiveTime_overflowing_sub_offset(self, offset) ==
    <<NaiveTime((self.secs - offset) % SECS_PER_DAY, self.frac),
      (self.secs - offset) \div SECS_PER_DAY>>

\* NaiveTime::signed_duration_since: the time from rhs to self; a leap second
\* between the two is counted
leap_between(self, rhs) ==
    IF self.secs > rhs.secs /\ rhs.frac >= NANOS_PER_SEC THEN 1
    ELSE IF self.secs < rhs.secs /\ self.frac >= NANOS_PER_SEC THEN -1
    ELSE 0
NaiveTime_signed_duration_since(self, rhs) ==
    Let(self.secs - rhs.secs + leap_between(self, rhs), LAMBDA secs :
        IF self.frac >= rhs.frac
        THEN IF self.frac - rhs.frac >= NANOS_PER_SEC
             THEN TimeDelta(FromInt(secs + 1), self.frac - rhs.frac - NANOS_PER_SEC)
             ELSE TimeDelta(FromInt(secs), self.frac - rhs.frac)
        ELSE IF rhs.frac - self.frac > NANOS_PER_SEC
             THEN TimeDelta(FromInt(secs - 2), 2 * NANOS_PER_SEC - (rhs.frac - self.frac))
             ELSE TimeDelta(FromInt(secs - 1), NANOS_PER_SEC - (rhs.frac - self.frac)))

\* NaiveTime::with_hour, with_minute, with_second, with_nanosecond (a u32 each)
NaiveTime_with_hour(self, hour) ==
    IF BLe(FromInt(24), hour) THEN Fail("InvalidArgument")
    ELSE Ret("Ok", NaiveTime(ToInt(hour) * 3600 + (self.secs % 3600), self.frac))
NaiveTime_with_minute(self, min) ==
    IF BLe(FromInt(60), min) THEN Fail("InvalidArgument")
    ELSE Ret("Ok", NaiveTime((self.secs \div 3600) * 3600 + ToInt(min) * 60 + (self.secs % 60),
                             self.frac))
NaiveTime_with_second(self, sec) ==
    IF BLe(FromInt(60), sec) THEN Fail("InvalidArgument")
    ELSE Ret("Ok", NaiveTime((self.secs \div 60) * 60 + ToInt(sec), self.frac))
NaiveTime_with_nanosecond(self, nano) ==
    IF BLe(FromInt(2 * NANOS_PER_SEC), nano) THEN Fail("InvalidArgument")
    ELSE Ret("Ok", NaiveTime(self.secs, ToInt(nano)))

\* ------------------------------------------------------------------------
\* NaiveDateTime: a calendar date and a time of day.
\* ------------------------------------------------------------------------

NaiveDateTime(date, time) == [date |-> date, time |-> time]
NaiveDateTime_MIN == NaiveDateTime(NaiveDate_MIN, NaiveTime_MIN)
NaiveDateTime_MAX == NaiveDateTime(NaiveDate_MAX, NaiveTime_MAX)

\* fault: checked_add_signed dropping the days the time of day wrapped over
checked_add_signed_no_carry(self, rhs) ==
    Let(NaiveTime_overflowing_add_signed(self.time, rhs), LAMBDA tr :
    Let(new(tr[2], Zero), LAMBDA remainder :
        IF remainder.kind # "Ok" THEN Fail("OutOfRange")
        ELSE Ret("Ok", NaiveDateTime(self.date, tr[1]))))
\* fault: checked_add_signed taking the receiver out of its leap second first
checked_add_signed_leap_dropped(self, rhs) ==
    Let(NaiveTime_overflowing_add_signed(
            NaiveTime(self.time.secs, self.time.frac % NANOS_PER_SEC), rhs), LAMBDA tr :
    Let(new(tr[2], Zero), LAMBDA remainder :
        IF remainder.kind # "Ok" THEN Fail("OutOfRange")
        ELSE Let(NaiveDate_checked_add_signed(self.date, remainder.val), LAMBDA date :
                 IF date.kind # "Ok" THEN Fail(date.kind)
                 ELSE Ret("Ok", NaiveDateTime(date.val, tr[1])))))
checked_add_signed(self, rhs) ==
    Let(NaiveTime_overflowing_add_signed(self.time, rhs), LAMBDA tr :
    Let(new(tr[2], Zero), LAMBDA remainder :
        IF remainder.kind # "Ok" THEN Fail("OutOfRange")
        ELSE Let(NaiveDate_checked_add_signed(self.date, remainder.val), LAMBDA date :
                 IF date.kind # "Ok" THEN Fail(date.kind)
                 ELSE Ret("Ok", NaiveDateTime(date.val, tr[1])))))

checked_add_months(self, rhs) ==
    Let(NaiveDate_checked_add_months(self.date, rhs), LAMBDA date :
        IF date.kind # "Some" THEN Fail("None")
        ELSE Ret("Some", NaiveDateTime(date.val, self.time)))

\* the date a day before, a day after, or the same, by the days the time wrapped over
offset_date(self, carry) ==
    IF carry = -1 THEN pred(self.date)
    ELSE IF carry = 1 THEN succ(self.date)
    ELSE Ret("Ok", self.date)
checked_add_offset(self, rhs) ==
    Let(NaiveTime_overflowing_add_offset(self.time, rhs), LAMBDA td :
    Let(offset_date(self, td[2]), LAMBDA date :
        IF date.kind # "Ok" THEN Fail(date.kind)
        ELSE Ret("Ok", NaiveDateTime(date.val, td[1]))))
\* fault: checked_sub_offset taking the time out of its leap second
checked_sub_offset_normalising(self, rhs) ==
    Let(NaiveTime_overflowing_sub_offset(self.time, rhs), LAMBDA td :
    Let(offset_date(self, td[2]), LAMBDA date :
        IF date.kind # "Ok" THEN Fail(date.kind)
        ELSE Ret("Ok", NaiveDateTime(date.val,
                                     NaiveTime(td[1].secs, td[1].frac % NANOS_PER_SEC)))))
checked_sub_offset(self, rhs) ==
    Let(NaiveTime_overflowing_sub_offset(self.time, rhs), LAMBDA td :
    Let(offset_date(self, td[2]), LAMBDA date :
        IF date.kind # "Ok" THEN Fail(date.kind)
        ELSE Ret("Ok", NaiveDateTime(date.val, td[1]))))

\* pred().unwrap_or(BEFORE_MIN), succ().unwrap_or(AFTER_MAX), or the same date
overflowing_date(self, carry) ==
    IF carry = -1
    THEN (IF pred(self.date).kind = "Ok" THEN pred(self.date).val ELSE NaiveDate_BEFORE_MIN)
    ELSE IF carry = 1
    THEN (IF succ(self.date).kind = "Ok" THEN succ(self.date).val ELSE NaiveDate_AFTER_MAX)
    ELSE self.date
\* fault: overflowing_add_offset keeping the date of the receiver at the edges
overflowing_add_offset_same_date(self, rhs) ==
    Let(NaiveTime_overflowing_add_offset(self.time, rhs), LAMBDA td :
    Let(offset_date(self, td[2]), LAMBDA date :
        IF date.kind # "Ok" THEN Ret("Value", NaiveDateTime(self.date, td[1]))
        ELSE Ret("Value", NaiveDateTime(date.val, td[1]))))
overflowing_add_offset(self, rhs) ==
    Let(NaiveTime_overflowing_add_offset(self.time, rhs), LAMBDA td :
        Ret("Value", NaiveDateTime(overflowing_date(self, td[2]), td[1])))
overflowing_sub_offset(self, rhs) ==
    Let(NaiveTime_overflowing_sub_offset(self.time, rhs), LAMBDA td :
        Ret("Value", NaiveDateTime(overflowing_date(self, td[2]), td[1])))

checked_sub_signed(self, rhs) ==
    Let(NaiveTime_overflowing_sub_signed(self.time, rhs), LAMBDA tr :
    Let(new(tr[2], Zero), LAMBDA remainder :
        IF remainder.kind # "Ok" THEN Fail("OutOfRange")
        ELSE Let(NaiveDate_checked_sub_signed(self.date, remainder.val), LAMBDA date :
                 IF date.kind # "Ok" THEN Fail(date.kind)
                 ELSE Ret("Ok", NaiveDateTime(date.val, tr[1])))))

\* fault: checked_sub_months adding the months
checked_sub_months_adding(self, rhs) ==
    Let(NaiveDate_checked_add_months(self.date, rhs), LAMBDA date :
        IF date.kind # "Some" THEN Fail("None")
        ELSE Ret("Some", NaiveDateTime(date.val, self.time)))
checked_sub_months(self, rhs) ==
    Let(NaiveDate_checked_sub_months(self.date, rhs), LAMBDA date :
        IF date.kind # "Some" THEN Fail("None")
        ELSE Ret("Some", NaiveDateTime(date.val, self.time)))

\* fault: checked_add_days returning the new date at midnight
checked_add_days_at_midnight(self, d) ==
    Let(NaiveDate_checked_add_days(self.date, d), LAMBDA date :
        IF date.kind # "Ok" THEN Fail(date.kind)
        ELSE Ret("Ok", NaiveDateTime(date.val, NaiveTime_MIN)))
checked_add_days(self, d) ==
    Let(NaiveDate_checked_add_days(self.date, d), LAMBDA date :
        IF date.kind # "Ok" THEN Fail(date.kind)
        ELSE Ret("Ok", NaiveDateTime(date.val, self.time)))
checked_sub_days(self, d) ==
    Let(NaiveDate_checked_sub_days(self.date, d), LAMBDA date :
        IF date.kind # "Ok" THEN Fail(date.kind)
        ELSE Ret("Ok", NaiveDateTime(date.val, self.time)))

\* fault: signed_duration_since leaving out the difference of the times of day
signed_duration_since_dates_only(self, rhs) ==
    Ret("Value", NaiveDate_signed_duration_since(self.date, rhs.date))
\* expect!(date difference .checked_add(time difference), "always in range")
signed_duration_since(self, rhs) ==
    expect(checked_add(NaiveDate_signed_duration_since(self.date, rhs.date),
                       NaiveTime_signed_duration_since(self.time, rhs.time)))

\* Ok(NaiveDateTime { date: try_err!(..), ..self }) and
\* Ok(NaiveDateTime { time: try_err!(..), ..self })
with_date(self, date) ==
    IF Returned(date) THEN Ret(date.kind, NaiveDateTime(date.val, self.time))
    ELSE Fail(date.kind)
with_time(self, time) ==
    IF Returned(time) THEN Ret(time.kind, NaiveDateTime(self.date, time.val))
    ELSE Fail(time.kind)
with_year(self, year) == with_date(self, NaiveDate_with_year(self.date, year))
\* fault: with_month clamping the day to the last day of the month
with_month_clamping(self, month) ==
    IF BLt(month, One) \/ BLt(FromInt(12), month) THEN Fail("InvalidArgument")
    ELSE Ret("Ok", NaiveDateTime(clamped(self.date.year, ToInt(month), self.date.day).val,
                                 self.time))
with_month(self, month) == with_date(self, NaiveDate_with_month(self.date, month))
with_day(self, day) == with_date(self, NaiveDate_with_day(self.date, day))
with_ordinal(self, ord) == with_date(self, NaiveDate_with_ordinal(self.date, ord))
with_hour(self, hour) == with_time(self, NaiveTime_with_hour(self.time, hour))
with_minute(self, min) == with_time(self, NaiveTime_with_minute(self.time, min))
with_second(self, sec) == with_time(self, NaiveTime_with_second(self.time, sec))
with_nanosecond(self, nano) == with_time(self, NaiveTime_with_nanosecond(self.time, nano))

\* the operators: Add, Sub, AddAssign and SubAssign for NaiveDateTime
\* fault: NaiveDateTime + TimeDelta returning the receiver when the sum is out of range
Add_TimeDelta_or_self(self, rhs) ==
    Let(checked_add_signed(self, rhs), LAMBDA r :
        IF r.kind = "Ok" THEN Ret("Value", r.val) ELSE Ret("Value", self))
Add_TimeDelta(self, rhs) == expect(checked_add_signed(self, rhs))
Add_Duration(self, rhs) ==
    Let(expect(from_std(rhs)), LAMBDA d :
        IF d.kind = "Panic" THEN d ELSE expect(checked_add_signed(self, d.val)))
AddAssign_TimeDelta(self, rhs) == Add_TimeDelta(self, rhs)
AddAssign_Duration(self, rhs) == Add_Duration(self, rhs)
Add_FixedOffset(self, rhs) == expect(checked_add_offset(self, rhs))
Add_Months(self, rhs) == expect(checked_add_months(self, rhs))
Sub_TimeDelta(self, rhs) == expect(checked_sub_signed(self, rhs))
Sub_Duration(self, rhs) ==
    Let(expect(from_std(rhs)), LAMBDA d :
        IF d.kind = "Panic" THEN d ELSE expect(checked_sub_signed(self, d.val)))
SubAssign_TimeDelta(self, rhs) == Sub_TimeDelta(self, rhs)
SubAssign_Duration(self, rhs) == Sub_Duration(self, rhs)
Sub_FixedOffset(self, rhs) == expect(checked_sub_offset(self, rhs))
Sub_Months(self, rhs) == expect(checked_sub_months(self, rhs))
Sub_NaiveDateTime(self, rhs) == signed_duration_since(self, rhs)
Add_Days(self, d) == expect(checked_add_days(self, d))
Sub_Days(self, d) == expect(checked_sub_days(self, d))

\* ------------------------------------------------------------------------
\* A program holding one NaiveDateTime calls one operation on it.
\* ------------------------------------------------------------------------

ymd_hms_nano(year, month, day, hour, min, sec, nano) ==
    NaiveDateTime(from_ymd(year, month, day).val, from_hms_nano(hour, min, sec, nano))
leap == ymd_hms_nano(2016, 7, 8, 3, 5, 59, 1300000000)

\* the date-times the program may hold
DateTimes == {
    NaiveDateTime_MIN,
    NaiveDateTime_MAX,
    NaiveDateTime(NaiveDate_MIN, NaiveTime(SECS_PER_DAY - 1, 2 * NANOS_PER_SEC - 1)),
    NaiveDateTime(NaiveDate_MAX, NaiveTime(SECS_PER_DAY - 1, 2 * NANOS_PER_SEC - 1)),
    ymd_hms_nano(2016, 7, 8, 3, 5, 7, 0),
    ymd_hms_nano(2016, 7, 8, 3, 5, 7, 980000000),
    leap,
    ymd_hms_nano(2016, 2, 29, 0, 0, 0, 0),
    ymd_hms_nano(2020, 1, 31, 6, 0, 0, 0),
    ymd_hms_nano(2014, 1, 31, 23, 59, 59, 1000000000),
    ymd_hms_nano(2020, 3, 31, 23, 58, 0, 0),
    ymd_hms_nano(2015, 9, 30, 12, 34, 56, 789000000),
    ymd_hms_nano(1, 1, 1, 0, 0, 0, 1)
}

\* the arguments it may pass
Deltas == {
    TimeDelta(Zero, 0), TimeDelta(One, 0), TimeDelta(FromInt(-1), 0),
    TimeDelta(FromInt(3660), 0), TimeDelta(FromInt(10), 0), TimeDelta(FromInt(-10), 0),
    TimeDelta(FromInt(SECS_PER_DAY), 0), TimeDelta(FromInt(-366 * SECS_PER_DAY), 0),
    \* 450, -500, 500 and 800 milliseconds, -1 nanosecond
    TimeDelta(Zero, 450000000), TimeDelta(FromInt(-1), 500000000),
    TimeDelta(Zero, 500000000), TimeDelta(Zero, 800000000),
    TimeDelta(FromInt(-1), 999999999),
    \* 1_000_000_000 days, either way
    TimeDelta(BMul(FromInt(1000000000), FromInt(SECS_PER_DAY)), 0),
    TimeDelta(BMul(FromInt(-1000000000), FromInt(SECS_PER_DAY)), 0),
    MIN, MAX,
    \* MAX * 2, a TimeDelta beyond MAX that Mul<i32> returns
    TimeDelta(BAdd(BMul(MAX.secs, FromInt(2)), One), 614000000)
}
Durations == {
    Duration(Zero, Zero), Duration(FromInt(3600), Zero), Duration(Zero, FromInt(999999999)),
    Duration(FromInt(86400), One), Duration(MAX.secs, FromInt(MAX.nanos)),
    Duration(MAX.secs, FromInt(MAX.nanos + 1)), Duration(U64_MAX, FromInt(999999999))
}
Offsets == {-86399, -7200, -1, 0, 1, 3600, 7200, 86399}
MonthCounts == {Zero, One, FromInt(2), FromInt(11), FromInt(12), FromInt(13), FromInt(15),
                FromInt(3145716), I32_MAX, BAdd(I32_MAX, One), U32_MAX}
DayCounts == {Zero, One, FromInt(366), FromInt(100000000), I32_MAX, BAdd(I32_MAX, One),
              U64_MAX}
Years == {FromInt(2016), FromInt(2015), FromInt(-308), FromInt(MIN_YEAR), FromInt(MAX_YEAR),
          FromInt(MIN_YEAR - 1), FromInt(MAX_YEAR + 1), I32_MIN, I32_MAX}
MonthNumbers == {Zero, One, FromInt(2), FromInt(4), FromInt(10), FromInt(12), FromInt(13),
                 U32_MAX}
DayNumbers == {Zero, One, FromInt(28), FromInt(29), FromInt(30), FromInt(31), FromInt(32),
               U32_MAX}
Ordinals == {Zero, One, FromInt(60), FromInt(365), FromInt(366), FromInt(367), U32_MAX}
HourNumbers == {Zero, FromInt(7), FromInt(23), FromInt(24), U32_MAX}
MinuteNumbers == {Zero, FromInt(45), FromInt(59), FromInt(60), U32_MAX}
Nanoseconds32 == {Zero, FromInt(333333333), FromInt(999999999), FromInt(1000000000),
                  FromInt(1333333333), FromInt(1999999999), FromInt(2000000000), U32_MAX}

\* the call name(cur, a) returned r; an assignment operator stores the value in cur
Called(name, a, r) ==
    /\ op = "start"
    /\ op' = name
    /\ recv' = cur
    /\ arg' = a
    /\ out' = r
    /\ cur' = IF name \in {"add_assign", "add_assign_duration", "sub_assign",
                           "sub_assign_duration"} /\ r.kind = "Value"
              THEN r.val ELSE cur
    /\ live' = (r.kind # "Panic")
    /\ steps' = steps + 1
    /\ UNCHANGED overflow_checks

DTInit ==
    /\ overflow_checks \in BOOLEAN
    /\ cur \in DateTimes
    /\ op = "start"
    /\ recv = cur
    /\ arg = Zero
    /\ out = Fail("start")
    /\ live = TRUE
    /\ steps = 0

\* one call of one operation on the date-time held, the argument drawn from a set above
DTNext ==
    \/ \E d \in Deltas :
           Called("checked_add_signed", d, checked_add_signed(cur, d))
    \/ \E d \in Deltas :
           Called("checked_sub_signed", d, checked_sub_signed(cur, d))
    \/ \E n \in MonthCounts :
           Called("checked_add_months", n, checked_add_months(cur, n))
    \/ \E n \in MonthCounts :
           Called("checked_sub_months", n, checked_sub_months(cur, n))
    \/ \E n \in DayCounts :
           Called("checked_add_days", n, checked_add_days(cur, n))
    \/ \E n \in DayCounts :
           Called("checked_sub_days", n, checked_sub_days(cur, n))
    \/ \E o \in Offsets :
           Called("checked_add_offset", o, checked_add_offset(cur, o))
    \/ \E o \in Offsets :
           Called("checked_sub_offset", o, checked_sub_offset(cur, o))
    \/ \E o \in Offsets :
           Called("overflowing_add_offset", o, overflowing_add_offset(cur, o))
    \/ \E o \in Offsets :
           Called("overflowing_sub_offset", o, overflowing_sub_offset(cur, o))
    \/ \E rhs \in DateTimes :
           Called("signed_duration_since", rhs, signed_duration_since(cur, rhs))
    \/ \E n \in Years :
           Called("with_year", n, with_year(cur, n))
    \/ \E n \in MonthNumbers :
           Called("with_month", n, with_month(cur, n))
    \/ \E n \in DayNumbers :
           Called("with_day", n, with_day(cur, n))
    \/ \E n \in Ordinals :
           Called("with_ordinal", n, with_ordinal(cur, n))
    \/ \E n \in HourNumbers :
           Called("with_hour", n, with_hour(cur, n))
    \/ \E n \in MinuteNumbers :
           Called("with_minute", n, with_minute(cur, n))
    \/ \E n \in MinuteNumbers :
           Called("with_second", n, with_second(cur, n))
    \/ \E n \in Nanoseconds32 :
           Called("with_nanosecond", n, with_nanosecond(cur, n))
    \/ \E d \in Deltas :
           Called("add", d, Add_TimeDelta(cur, d))
    \/ \E d \in Durations :
           Called("add_duration", d, Add_Duration(cur, d))
    \/ \E d \in Deltas :
           Called("add_assign", d, AddAssign_TimeDelta(cur, d))
    \/ \E d \in Durations :
           Called("add_assign_duration", d, AddAssign_Duration(cur, d))
    \/ \E o \in Offsets :
           Called("add_offset", o, Add_FixedOffset(cur, o))
    \/ \E n \in MonthCounts :
           Called("add_months", n, Add_Months(cur, n))
    \/ \E n \in DayCounts :
           Called("add_days", n, Add_Days(cur, n))
    \/ \E d \in Deltas :
           Called("sub", d, Sub_TimeDelta(cur, d))
    \/ \E d \in Durations :
           Called("sub_duration", d, Sub_Duration(cur, d))
    \/ \E d \in Deltas :
           Called("sub_assign", d, SubAssign_TimeDelta(cur, d))
    \/ \E d \in Durations :
           Called("sub_assign_duration", d, SubAssign_Duration(cur, d))
    \/ \E o \in Offsets :
           Called("sub_offset", o, Sub_FixedOffset(cur, o))
    \/ \E n \in MonthCounts :
           Called("sub_months", n, Sub_Months(cur, n))
    \/ \E n \in DayCounts :
           Called("sub_days", n, Sub_Days(cur, n))
    \/ \E rhs \in DateTimes :
           Called("sub_datetime", rhs, Sub_NaiveDateTime(cur, rhs))

SpecDT == DTInit /\ [][DTNext]_vars

\* ------------------------------------------------------------------------
\* Properties of NaiveDateTime
\* ------------------------------------------------------------------------

\* the nanoseconds from the start of 0001-01-01 to a date-time, on a time line
\* without leap seconds
Position(dt) ==
    TotalOf(BAdd(BMul(FromInt(num_days_from_ce(dt.date)), FromInt(SECS_PER_DAY)),
                 FromInt(dt.time.secs)),
            FromInt(dt.time.frac))
InLeapSecond(dt) == dt.time.frac >= NANOS_PER_SEC
\* a date-time of the representable range, outside any leap second
ValidDateTime(dt) ==
    /\ from_ymd(dt.date.year, dt.date.month, dt.date.day) = Ret("Ok", dt.date)
    /\ dt.time.secs \in 0..(SECS_PER_DAY - 1)
    /\ dt.time.frac \in 0..(NANOS_PER_SEC - 1)

\* C11: signed_duration_since never panics: between any two date-times from
\* MIN to MAX (leap-second nanoseconds included) it returns a TimeDelta within
\* [MIN, MAX]; a - b is the negation of b - a; and outside leap seconds it is
\* the distance of the two on the time line.
C11_SignedDurationSince ==
    op = "signed_duration_since" =>
        /\ out.kind = "Value"
        /\ InRangeTD(out.val)
        /\ signed_duration_since(arg, recv).kind = "Value"
        /\ out = neg(signed_duration_since(arg, recv).val)
        /\ (~InLeapSecond(recv) /\ ~InLeapSecond(arg)
                => total_nanos(out.val) = BSub(Position(recv), Position(arg)))
C11_Witness ==
    /\ op = "signed_duration_since"
    /\ recv = NaiveDateTime(NaiveDate_MAX, NaiveTime(SECS_PER_DAY - 1, 2 * NANOS_PER_SEC - 1))
    /\ arg = NaiveDateTime_MIN
    /\ out.kind = "Value"
    /\ BLt(Zero, out.val.secs)

\* the date-time at a position of the time line is returned, or OutOfRange
\* when the position is outside MIN..MAX
ReturnsPosition(r, target) ==
    IF BLe(Position(NaiveDateTime_MIN), target) /\ BLe(target, Position(NaiveDateTime_MAX))
    THEN r.kind = "Ok" /\ ValidDateTime(r.val) /\ Position(r.val) = target
    ELSE r = Fail("OutOfRange")

\* C12: for a receiver outside a leap second and a TimeDelta d within [MIN, MAX],
\* checked_add_signed returns Ok of the date-time exactly total_nanos(d) later
\* when its date is representable, and Err(OutOfRange) otherwise; for any
\* receiver and any d it returns Ok or Err(OutOfRange), never panicking.
C12_CheckedAddSigned ==
    op = "checked_add_signed" =>
        /\ out.kind \in {"Ok", "OutOfRange"}
        /\ (~InLeapSecond(recv) /\ InRangeTD(arg)
                => ReturnsPosition(out, BAdd(Position(recv), total_nanos(arg))))
        /\ (recv = ymd_hms_nano(2016, 7, 8, 3, 5, 7, 0) /\ arg = TimeDelta(FromInt(3660), 0)
                => out = Ret("Ok", ymd_hms_nano(2016, 7, 8, 4, 6, 7, 0)))
        /\ (recv = ymd_hms_nano(2016, 7, 8, 3, 5, 7, 0)
                /\ arg = TimeDelta(BMul(FromInt(1000000000), FromInt(SECS_PER_DAY)), 0)
                => out = Fail("OutOfRange"))
C12_Witness ==
    /\ op = "checked_add_signed"
    /\ recv = ymd_hms_nano(2016, 7, 8, 3, 5, 7, 980000000)
    /\ arg = TimeDelta(FromInt(-366 * SECS_PER_DAY), 0)
    /\ out = Ret("Ok", ymd_hms_nano(2015, 7, 8, 3, 5, 7, 980000000))

\* C13: a receiver in a leap second (2016-07-08 03:05:59 with nanosecond
\* 1_300_000_000) takes its leap second as the only one there ever was: adding
\* 0 leaves it unchanged, -500 ms gives 03:05:59.800, +500 ms 03:05:59 with
\* nanosecond 1_800_000_000, +800 ms 03:06:00.100, +10 s 03:06:09.300, -10 s
\* 03:05:50.300 and +1 day 2016-07-09 03:05:59.300.
LeapPlus(d, expected) == arg = d => out = Ret("Ok", expected)
C13_LeapSecondArithmetic ==
    op = "checked_add_signed" /\ recv = leap =>
        /\ LeapPlus(TimeDelta(Zero, 0), leap)
        /\ LeapPlus(TimeDelta(FromInt(-1), 500000000),
                    ymd_hms_nano(2016, 7, 8, 3, 5, 59, 800000000))
        /\ LeapPlus(TimeDelta(Zero, 500000000),
                    ymd_hms_nano(2016, 7, 8, 3, 5, 59, 1800000000))
        /\ LeapPlus(TimeDelta(Zero, 800000000),
                    ymd_hms_nano(2016, 7, 8, 3, 6, 0, 100000000))
        /\ LeapPlus(TimeDelta(FromInt(10), 0), ymd_hms_nano(2016, 7, 8, 3, 6, 9, 300000000))
        /\ LeapPlus(TimeDelta(FromInt(-10), 0), ymd_hms_nano(2016, 7, 8, 3, 5, 50, 300000000))
        /\ LeapPlus(TimeDelta(FromInt(SECS_PER_DAY), 0),
                    ymd_hms_nano(2016, 7, 9, 3, 5, 59, 300000000))
C13_Witness ==
    /\ op = "checked_add_signed"
    /\ recv = leap
    /\ arg = TimeDelta(Zero, 800000000)
    /\ out = Ret("Ok", ymd_hms_nano(2016, 7, 8, 3, 6, 0, 100000000))

\* the date-time whose month is count months (a signed number) from that of dt,
\* with its day of month if the month has it and the last day of the month if
\* not, or None when the year is outside MIN_YEAR..MAX_YEAR
InMonth(dt, year, month) ==
    IF BLt(year, FromInt(MIN_YEAR)) \/ BLt(FromInt(MAX_YEAR), year) THEN Fail("None")
    ELSE IF dt.date.day <= days_in_month(ToInt(year), month)
    THEN Ret("Some", NaiveDateTime(NaiveDate(ToInt(year), month, dt.date.day), dt.time))
    ELSE Ret("Some", NaiveDateTime(NaiveDate(ToInt(year), month,
                                             days_in_month(ToInt(year), month)), dt.time))
InMonthIndex(dt, index) ==
    InMonth(dt, div_euclid(index, FromInt(12)), ToInt(rem_euclid(index, FromInt(12))) + 1)
MonthsFrom(dt, count) ==
    InMonthIndex(dt, BAdd(FromInt(dt.date.year * 12 + dt.date.month - 1), count))

\* C14: checked_add_months and checked_sub_months move the month by exactly n,
\* keep the day of month when the resulting month has it and clamp it to the
\* last day of that month otherwise, and return None when the resulting year is
\* out of range.
C14_AddSubMonths ==
    /\ op = "checked_add_months" =>
        /\ out = MonthsFrom(recv, arg)
        /\ (recv.date = NaiveDate(2020, 1, 31) /\ arg = One
                => out = Ret("Some", NaiveDateTime(NaiveDate(2020, 2, 29), recv.time)))
        /\ (recv.date = NaiveDate(2014, 1, 31) /\ arg = One
                => out = Ret("Some", NaiveDateTime(NaiveDate(2014, 2, 28), recv.time)))
        /\ (arg = BAdd(I32_MAX, One) => out = Fail("None"))
    /\ op = "checked_sub_months" =>
        /\ out = MonthsFrom(recv, BNeg(arg))
        /\ (recv.date = NaiveDate(2020, 3, 31) /\ arg = One
                => out = Ret("Some", NaiveDateTime(NaiveDate(2020, 2, 29), recv.time)))
        /\ (recv.date = NaiveDate(2020, 3, 31) /\ arg = FromInt(2)
                => out = Ret("Some", NaiveDateTime(NaiveDate(2020, 1, 31), recv.time)))
C14_Witness ==
    /\ op = "checked_sub_months"
    /\ recv = ymd_hms_nano(2020, 3, 31, 23, 58, 0, 0)
    /\ arg = One
    /\ out = Ret("Some", ymd_hms_nano(2020, 2, 29, 23, 58, 0, 0))

\* r is what a panicking wrapper of a checked operation that returned c returns
Wraps(r, c) == IF Returned(c) THEN r = Ret("Value", c.val) ELSE r.kind = "Panic"
\* the same for a core::time::Duration d, converted with from_std first
WrapsAddStd(r, self, d) ==
    IF from_std(d).kind = "Ok" THEN Wraps(r, checked_add_signed(self, from_std(d).val))
    ELSE r.kind = "Panic"
WrapsSubStd(r, self, d) ==
    IF from_std(d).kind = "Ok" THEN Wraps(r, checked_sub_signed(self, from_std(d).val))
    ELSE r.kind = "Panic"

\* C15: every operator of NaiveDateTime returns the value of its checked
\* operation when that succeeds and panics exactly when it fails (for a
\* core::time::Duration, also when from_std fails); += and -= leave the
\* receiver equal to the value of + and -.
C15_OperatorsWrapChecked ==
    /\ op \in {"add", "add_assign"} => Wraps(out, checked_add_signed(recv, arg))
    /\ op \in {"sub", "sub_assign"} => Wraps(out, checked_sub_signed(recv, arg))
    /\ op \in {"add_duration", "add_assign_duration"} => WrapsAddStd(out, recv, arg)
    /\ op \in {"sub_duration", "sub_assign_duration"} => WrapsSubStd(out, recv, arg)
    /\ op = "add_offset" => Wraps(out, checked_add_offset(recv, arg))
    /\ op = "sub_offset" => Wraps(out, checked_sub_offset(recv, arg))
    /\ op = "add_months" => Wraps(out, checked_add_months(recv, arg))
    /\ op = "sub_months" => Wraps(out, checked_sub_months(recv, arg))
    /\ op = "add_days" => Wraps(out, checked_add_days(recv, arg))
    /\ op = "sub_days" => Wraps(out, checked_sub_days(recv, arg))
    /\ op \in {"add_assign", "add_assign_duration", "sub_assign", "sub_assign_duration"}
            /\ out.kind = "Value" => cur = out.val
    /\ op = "add_assign" => out = Add_TimeDelta(recv, arg)
    /\ op = "sub_assign" => out = Sub_TimeDelta(recv, arg)
    /\ op = "add_assign_duration" => out = Add_Duration(recv, arg)
    /\ op = "sub_assign_duration" => out = Sub_Duration(recv, arg)
C15_Witness ==
    /\ op = "add_assign_duration"
    /\ recv = ymd_hms_nano(2016, 7, 8, 3, 5, 7, 0)
    /\ arg = Duration(FromInt(3600), Zero)
    /\ cur = ymd_hms_nano(2016, 7, 8, 4, 5, 7, 0)

\* the time of day and the day carry of a time moved by seconds
WrappedSecs(time, by) == NaiveTime((time.secs + by) % SECS_PER_DAY, time.frac)
DayCarry(time, by) == (time.secs + by) \div SECS_PER_DAY
\* r is the value of the overflowing variant of an offset operation that moved
\* the time of dt by seconds, and whose checked variant returned c
AgreesWithChecked(r, c, dt, by) ==
    /\ r.kind = "Value"
    /\ DayCarry(dt.time, by) \in {-1, 0, 1}
    /\ r.val.time = WrappedSecs(dt.time, by)
    /\ IF c.kind = "Ok" THEN r.val = c.val
       ELSE /\ c = Fail("OutOfRange")
            /\ \/ /\ DayCarry(dt.time, by) = -1
                  /\ dt.date = NaiveDate_MIN
                  /\ r.val.date = NaiveDate_BEFORE_MIN
               \/ /\ DayCarry(dt.time, by) = 1
                  /\ dt.date = NaiveDate_MAX
                  /\ r.val.date = NaiveDate_AFTER_MAX

\* C16: overflowing_add_offset and overflowing_sub_offset never fail; they
\* return the value of the checked variant when that is Ok, and when it is
\* Err(OutOfRange) the same wrapped time of day with the date BEFORE_MIN (carry
\* -1 at NaiveDate::MIN) or AFTER_MAX (carry +1 at NaiveDate::MAX); the day
\* carry is -1, 0 or 1.
C16_OverflowingOffset ==
    /\ op = "overflowing_add_offset"
            => AgreesWithChecked(out, checked_add_offset(recv, arg), recv, arg)
    /\ op = "overflowing_sub_offset"
            => AgreesWithChecked(out, checked_sub_offset(recv, arg), recv, -arg)
C16_Witness ==
    /\ op = "overflowing_add_offset"
    /\ recv = NaiveDateTime_MAX
    /\ arg = 7200
    /\ out = Ret("Value", NaiveDateTime(NaiveDate_AFTER_MAX, NaiveTime(7199, 999999999)))

\* C17: the operations on the date keep the time of day (leap-second
\* nanoseconds included), the setters of the time of day keep the date, and a
\* failure returns the error or None alone, the receiver being as it was.
C17_Frame ==
    /\ op \in {"checked_add_months", "checked_sub_months", "checked_add_days",
               "checked_sub_days", "with_year", "with_month", "with_day", "with_ordinal"}
            /\ Returned(out) => out.val.time = recv.time
    /\ op \in {"with_hour", "with_minute", "with_second", "with_nanosecond"}
            /\ Returned(out) => out.val.date = recv.date
    /\ op \in {"checked_add_months", "checked_sub_months", "checked_add_days",
               "checked_sub_days", "with_year", "with_month", "with_day", "with_ordinal",
               "with_hour", "with_minute", "with_second", "with_nanosecond"}
            => /\ out.kind \in {"Ok", "Some", "None", "OutOfRange", "InvalidArgument",
                                "DoesNotExist"}
               /\ (~Returned(out) => out = Fail(out.kind))
               /\ cur = recv
C17_Witness ==
    /\ op = "checked_add_days"
    /\ recv = ymd_hms_nano(2014, 1, 31, 23, 59, 59, 1000000000)
    /\ arg = FromInt(366)
    /\ out = Ret("Ok", ymd_hms_nano(2015, 2, 1, 23, 59, 59, 1000000000))

\* C18: with_month(m) is Err(InvalidArgument) for m outside 1..=12 and
\* Err(DoesNotExist) when the receiver's day does not exist in month m, without
\* clamping; with_day(d) is Err(DoesNotExist) when the month has no day d;
\* with_hour(24), with_minute(60), with_second(60) and
\* with_nanosecond(2_000_000_000) are Err(InvalidArgument); with_nanosecond
\* accepts every value below 2_000_000_000.
C18_SetterErrors ==
    /\ op = "with_month" =>
        IF BLt(arg, One) \/ BLt(FromInt(12), arg) THEN out = Fail("InvalidArgument")
        ELSE IF recv.date.day > days_in_month(recv.date.year, ToInt(arg))
        THEN out = Fail("DoesNotExist")
        ELSE out = Ret("Ok", NaiveDateTime(NaiveDate(recv.date.year, ToInt(arg),
                                                     recv.date.day), recv.time))
    /\ op = "with_day" /\ BLe(One, arg) /\ BLe(arg, FromInt(31)) =>
        IF ToInt(arg) > days_in_month(recv.date.year, recv.date.month)
        THEN out = Fail("DoesNotExist")
        ELSE out = Ret("Ok", NaiveDateTime(NaiveDate(recv.date.year, recv.date.month,
                                                     ToInt(arg)), recv.time))
    /\ op = "with_day" /\ recv.date.month = 9 /\ arg = FromInt(31)
            => out = Fail("DoesNotExist")
    /\ op = "with_month" /\ recv.date.day = 30 /\ arg = FromInt(2)
            => out = Fail("DoesNotExist")
    /\ op = "with_hour" /\ arg = FromInt(24) => out = Fail("InvalidArgument")
    /\ op = "with_minute" /\ arg = FromInt(60) => out = Fail("InvalidArgument")
    /\ op = "with_second" /\ arg = FromInt(60) => out = Fail("InvalidArgument")
    /\ op = "with_nanosecond" =>
        IF BLt(arg, FromInt(2 * NANOS_PER_SEC))
        THEN out = Ret("Ok", NaiveDateTime(recv.date, NaiveTime(recv.time.secs, ToInt(arg))))
        ELSE out = Fail("InvalidArgument")
C18_Witness ==
    /\ op = "with_month"
    /\ recv = ymd_hms_nano(2015, 9, 30, 12, 34, 56, 789000000)
    /\ arg = FromInt(2)
    /\ out = Fail("DoesNotExist")

\* ------------------------------------------------------------------------
\* CalendarDuration: months, days, minutes and seconds in one u64, nanoseconds.
\* ------------------------------------------------------------------------

\* u64 `<<`, `>>`, `|` and `&`: a shift left loses the bits above bit 63; the
\* bitwise operations go 16 bits at a time
RECURSIVE OrBits(_, _), AndBits(_, _)
OrBits(x, y) ==
    IF x = 0 THEN y
    ELSE IF y = 0 THEN x
    ELSE (IF x % 2 = 1 \/ y % 2 = 1 THEN 1 ELSE 0) + 2 * OrBits(x \div 2, y \div 2)
AndBits(x, y) ==
    IF x = 0 \/ y = 0 THEN 0
    ELSE (IF x % 2 = 1 /\ y % 2 = 1 THEN 1 ELSE 0) + 2 * AndBits(x \div 2, y \div 2)
RECURSIVE BitOr(_, _), BitAnd(_, _)
BitOr(a, b) ==
    IF a = Zero THEN b
    ELSE IF b = Zero THEN a
    ELSE Let(TruncDivRem(a, FromInt(65536)), LAMBDA x :
         Let(TruncDivRem(b, FromInt(65536)), LAMBDA y :
             BAdd(BMul(BitOr(x[1], y[1]), FromInt(65536)),
                  FromInt(OrBits(ToInt(x[2]), ToInt(y[2]))))))
BitAnd(a, b) ==
    IF a = Zero \/ b = Zero THEN Zero
    ELSE Let(TruncDivRem(a, FromInt(65536)), LAMBDA x :
         Let(TruncDivRem(b, FromInt(65536)), LAMBDA y :
             BAdd(BMul(BitAnd(x[1], y[1]), FromInt(65536)),
                  FromInt(AndBits(ToInt(x[2]), ToInt(y[2]))))))
Shl(a, n) == TruncRem(BMul(a, FromInt(2 ^ n)), BAdd(U64_MAX, One))
Shr(a, n) == TruncDiv(a, FromInt(2 ^ n))

\* u64::checked_mul / u64::checked_add
CheckedU64(x) == IF BLe(x, U64_MAX) THEN RetN("Some", x) ELSE RetN("None", Zero)
checked_mul_u64(a, b) == CheckedU64(BMul(a, b))
checked_add_u64(a, b) == CheckedU64(BAdd(a, b))

\* 1 << 62 and 1 << 56
TWO_POW_62 == Lit(<<4, 611, 686, 18, 427, 387, 904>>)
TWO_POW_56 == Lit(<<72, 57, 594, 37, 927, 936>>)

\* MinutesAndSeconds(NonZeroU64): `kind` is "Some", "None" or "Panic", `n` the word
NonZeroU64_new(val) == IF val = Zero THEN RetN("Panic", Zero) ELSE RetN("Some", val)
\* fault: from_seconds taking every seconds below 1 << 63
from_seconds_unlimited(secs) ==
    IF BLe(BMul(TWO_POW_62, FromInt(2)), secs) THEN RetN("None", Zero)
    ELSE NonZeroU64_new(BitOr(Shl(secs, 2), FromInt(2)))
from_seconds(secs) ==
    IF BLe(TWO_POW_62, secs) THEN RetN("None", Zero)
    ELSE NonZeroU64_new(BitOr(Shl(secs, 2), FromInt(2)))

\* fault: from_minutes_and_seconds setting bit 0 also when there are no minutes
from_minutes_and_seconds_tagged(mins, secs) ==
    IF BLe(TWO_POW_56, mins) \/ BLt(FromInt(60), secs) THEN RetN("None", Zero)
    ELSE NonZeroU64_new(BitOr(BitOr(Shl(mins, 8), Shl(secs, 2)), FromInt(3)))
\* fault: from_minutes_and_seconds without the bit that tells minutes are there
from_minutes_and_seconds_untagged(mins, secs) ==
    IF BLe(TWO_POW_56, mins) \/ BLt(FromInt(60), secs) THEN RetN("None", Zero)
    ELSE NonZeroU64_new(BitOr(BitOr(Shl(mins, 8), Shl(secs, 2)), FromInt(2)))
from_minutes_and_seconds(mins, secs) ==
    IF BLe(TWO_POW_56, mins) \/ BLt(FromInt(60), secs) THEN RetN("None", Zero)
    ELSE NonZeroU64_new(BitOr(BitOr(BitOr(Shl(mins, 8), Shl(secs, 2)),
                                    IF BLt(Zero, mins) THEN One ELSE Zero),
                              FromInt(2)))

\* MinutesAndSeconds::mins_and_secs: <<minutes, seconds>>
MinutesAndSeconds_mins_and_secs(value) ==
    IF BitAnd(value, One) = Zero THEN <<Zero, Shr(value, 2)>>
    ELSE <<Shr(value, 8), BitAnd(Shr(value, 2), FromInt(63))>>

CalendarDuration(months, days_, mins_and_secs_, nanos) ==
    [months |-> months, days |-> days_, mins_and_secs |-> mins_and_secs_, nanos |-> nanos]
CalendarDuration_new ==
    Let(from_seconds(Zero), LAMBDA m :
        IF m.kind # "Some" THEN Fail("Panic")
        ELSE Ret("Value", CalendarDuration(Zero, Zero, m.n, Zero)))
with_months(self, months) == Ret("Value", [self EXCEPT !.months = months])
with_days(self, count) == Ret("Value", [self EXCEPT !.days = count])

\* fault: with_hms with a wrapping multiplication and addition
with_hms_wrapping(self, hrs, mins, secs) ==
    Let(from_minutes_and_seconds(
            TruncRem(BAdd(BMul(hrs, FromInt(60)), mins), BAdd(U64_MAX, One)), secs),
        LAMBDA m :
        IF m.kind = "Panic" THEN Fail("Panic")
        ELSE IF m.kind = "None" THEN Fail("None")
        ELSE Ret("Some", [self EXCEPT !.mins_and_secs = m.n]))
with_hms(self, hrs, mins, secs) ==
    Let(checked_mul_u64(hrs, FromInt(60)), LAMBDA h :
        IF h.kind = "None" THEN Fail("None")
        ELSE Let(checked_add_u64(h.n, mins), LAMBDA total :
             IF total.kind = "None" THEN Fail("None")
             ELSE Let(from_minutes_and_seconds(total.n, secs), LAMBDA m :
                  IF m.kind = "Panic" THEN Fail("Panic")
                  ELSE IF m.kind = "None" THEN Fail("None")
                  ELSE Ret("Some", [self EXCEPT !.mins_and_secs = m.n]))))
with_seconds(self, secs) ==
    Let(from_seconds(secs), LAMBDA m :
        IF m.kind = "Panic" THEN Fail("Panic")
        ELSE IF m.kind = "None" THEN Fail("None")
        ELSE Ret("Some", [self EXCEPT !.mins_and_secs = m.n]))
\* fault: with_nanos taking every u32
with_nanos_unchecked(self, nanos) == Ret("Some", [self EXCEPT !.nanos = nanos])
with_nanos(self, nanos) ==
    IF BLe(FromInt(1000000000), nanos) THEN Fail("None")
    ELSE Ret("Some", [self EXCEPT !.nanos = nanos])
mins_and_secs(self) == MinutesAndSeconds_mins_and_secs(self.mins_and_secs)
\* fault: is_zero leaving out the nanoseconds
is_zero_ignoring_nanos(self) ==
    /\ self.months = Zero
    /\ self.days = Zero
    /\ mins_and_secs(self) = <<Zero, Zero>>
is_zero(self) ==
    /\ self.months = Zero
    /\ self.days = Zero
    /\ mins_and_secs(self) = <<Zero, Zero>>
    /\ self.nanos = Zero

\* ------------------------------------------------------------------------
\* A program holding one CalendarDuration calls a setter on it, and then reads
\* the minutes and seconds.
\* ------------------------------------------------------------------------

\* the durations the program may hold
CalendarDurations == {
    CalendarDuration_new.val,
    with_days(with_months(CalendarDuration_new.val, FromInt(18)).val, U32_MAX).val,
    with_seconds(CalendarDuration_new.val, FromInt(123456)).val,
    with_seconds(CalendarDuration_new.val, BSub(TWO_POW_62, One)).val,
    with_hms(with_nanos(CalendarDuration_new.val, FromInt(999999999)).val,
             FromInt(3), FromInt(4), FromInt(5)).val
}
\* the arguments it may pass: u32, u64 and u8 values
U32Args == {Zero, One, FromInt(18), FromInt(999999999), FromInt(1000000000), U32_MAX}
HourArgs == {Zero, One, FromInt(3),
             TruncDiv(BSub(TWO_POW_56, One), FromInt(60)),
             BAdd(TruncDiv(BSub(TWO_POW_56, One), FromInt(60)), One),
             TruncDiv(U64_MAX, FromInt(60)),
             BAdd(TruncDiv(U64_MAX, FromInt(60)), One),
             U64_MAX}
MinuteArgs == {Zero, FromInt(4), FromInt(15), FromInt(16), BSub(TWO_POW_56, One), TWO_POW_56,
               BSub(U64_MAX, FromInt(60)), U64_MAX}
SecondArgs == {Zero, FromInt(5), FromInt(59), FromInt(60), FromInt(61), FromInt(255)}
SecondsOnlyArgs == {Zero, FromInt(60), FromInt(123456), BSub(TWO_POW_62, One), TWO_POW_62,
                    U64_MAX}

Hms(hrs, mins, secs) == [hours |-> hrs, minutes |-> mins, seconds |-> secs]

\* the setter name(cur, ..) with the arguments in the record a returned r: the program goes on with the value
\* returned, or with the one it had when the setter returned None
Set(name, a, r) ==
    /\ op = "start"
    /\ op' = name
    /\ recv' = cur
    /\ arg' = a
    /\ out' = r
    /\ cur' = IF Returned(r) THEN r.val ELSE cur
    /\ live' = Returned(r)
    /\ steps' = steps + 1
    /\ UNCHANGED overflow_checks

CDInit ==
    /\ overflow_checks \in BOOLEAN
    /\ cur \in CalendarDurations
    /\ op = "start"
    /\ recv = cur
    /\ arg = [none |-> Zero]
    /\ out = Fail("start")
    /\ live = TRUE
    /\ steps = 0

\* one call of a setter on the value held, or mins_and_secs() of the value a setter
\* returned (arg stays that of the setter)
CDNext ==
    \/ \E n \in U32Args : Set("with_months", [months |-> n], with_months(cur, n))
    \/ \E n \in U32Args : Set("with_days", [days |-> n], with_days(cur, n))
    \/ \E h \in HourArgs, m \in MinuteArgs, s \in SecondArgs :
           Set("with_hms", Hms(h, m, s), with_hms(cur, h, m, s))
    \/ \E n \in SecondsOnlyArgs : Set("with_seconds", [seconds |-> n], with_seconds(cur, n))
    \/ \E n \in U32Args : Set("with_nanos", [nanos |-> n], with_nanos(cur, n))
    \/ /\ op \in {"with_months", "with_days", "with_hms", "with_seconds", "with_nanos"}
       /\ live
       /\ op' = "mins_and_secs"
       /\ recv' = cur
       /\ out' = mins_and_secs(cur)
       /\ live' = FALSE
       /\ steps' = steps + 1
       /\ UNCHANGED <<overflow_checks, cur, arg>>

SpecCD == CDInit /\ [][CDNext]_vars

\* ------------------------------------------------------------------------
\* A program that starts from CalendarDuration::new() and calls setters on
\* the value it holds, any number of times, going on with the value it had
\* when a setter returns None; it may ask is_zero() of the value at any time.
\* ------------------------------------------------------------------------

\* the arguments of the chained calls
ChainU32 == {Zero, FromInt(18), FromInt(999999999), FromInt(1000000000)}
ChainHms == {Hms(Zero, Zero, Zero), Hms(Zero, Zero, FromInt(60)), Hms(Zero, One, Zero),
             Hms(FromInt(3), FromInt(4), FromInt(5)),
             Hms(Zero, BSub(TWO_POW_56, One), FromInt(60)),
             Hms(Zero, TWO_POW_56, Zero), Hms(Zero, Zero, FromInt(61))}
ChainSeconds == {Zero, FromInt(60), FromInt(64), BSub(TWO_POW_62, One), TWO_POW_62}

Chained(name, a, r) ==
    /\ op' = name
    /\ recv' = cur
    /\ arg' = a
    /\ out' = r
    /\ cur' = IF Returned(r) THEN r.val ELSE cur
    /\ UNCHANGED <<overflow_checks, live, steps>>

ChainInit ==
    /\ overflow_checks = FALSE
    /\ cur = CalendarDuration_new.val
    /\ op = "new"
    /\ recv = cur
    /\ arg = [none |-> Zero]
    /\ out = CalendarDuration_new
    /\ live = TRUE
    /\ steps = 0

ChainNext ==
    \/ \E n \in {Zero, FromInt(18)} :
           Chained("with_months", [months |-> n], with_months(cur, n))
    \/ \E n \in {Zero, U32_MAX} : Chained("with_days", [days |-> n], with_days(cur, n))
    \/ \E a \in ChainHms :
           Chained("with_hms", a, with_hms(cur, a.hours, a.minutes, a.seconds))
    \/ \E n \in ChainSeconds : Chained("with_seconds", [seconds |-> n], with_seconds(cur, n))
    \/ \E n \in ChainU32 : Chained("with_nanos", [nanos |-> n], with_nanos(cur, n))
    \/ /\ op' = "is_zero"
       /\ recv' = cur
       /\ out' = is_zero(cur)
       /\ UNCHANGED <<overflow_checks, cur, arg, live, steps>>

SpecChain == ChainInit /\ [][ChainNext]_vars

\* ------------------------------------------------------------------------
\* Properties of CalendarDuration
\* ------------------------------------------------------------------------

\* hours * 60 + minutes, exactly
TotalMinutes(a) == BAdd(BMul(a.hours, FromInt(60)), a.minutes)

\* C19: for hours, minutes and seconds with hours * 60 + minutes <= 2^56 - 1
\* and seconds <= 60, with_hms on any CalendarDuration returns Some, and
\* mins_and_secs() of the value returned is exactly
\* (hours * 60 + minutes, seconds), also when the minutes are 0 and when the
\* seconds are 60.
C19_HmsRoundTrip ==
    /\ op = "with_hms" /\ BLt(TotalMinutes(arg), TWO_POW_56) /\ BLe(arg.seconds, FromInt(60))
            => out.kind = "Some"
    /\ op = "mins_and_secs" /\ "hours" \in DOMAIN arg
            => out = <<TotalMinutes(arg), arg.seconds>>
C19_Witness ==
    /\ op = "mins_and_secs"
    /\ arg = Hms(Zero, BSub(TWO_POW_56, One), FromInt(60))
    /\ recv.days = U32_MAX
    /\ out = <<BSub(TWO_POW_56, One), FromInt(60)>>

\* C20: with_hms returns None exactly when seconds > 60, or hours * 60
\* overflows u64, or hours * 60 + minutes overflows u64, or hours * 60 + minutes
\* >= 2^56; otherwise it returns Some of a duration that holds the exact
\* minutes and seconds and the other components of the receiver; it never
\* panics.
C20_HmsNoneExactly ==
    op = "with_hms" =>
        IF \/ BLt(FromInt(60), arg.seconds)
           \/ BLt(U64_MAX, BMul(arg.hours, FromInt(60)))
           \/ BLt(U64_MAX, TotalMinutes(arg))
           \/ BLe(TWO_POW_56, TotalMinutes(arg))
        THEN out = Fail("None")
        ELSE /\ out.kind = "Some"
             /\ mins_and_secs(out.val) = <<TotalMinutes(arg), arg.seconds>>
             /\ out.val.months = recv.months
             /\ out.val.days = recv.days
             /\ out.val.nanos = recv.nanos
C20_Witness ==
    /\ op = "with_hms"
    /\ arg = Hms(BAdd(TruncDiv(U64_MAX, FromInt(60)), One), FromInt(4), FromInt(5))
    /\ out = Fail("None")

\* the components of a duration other than the minutes and seconds
SameNominalAndNanos(a, b) == a.months = b.months /\ a.days = b.days /\ a.nanos = b.nanos

\* C21: with_seconds(s) returns None exactly when s >= 2^62 and otherwise a
\* duration whose mins_and_secs() is (0, s), also after a with_hms that set
\* minutes, with months, days and nanos as they were; with_nanos(n) returns
\* None exactly when n >= 1_000_000_000 and otherwise changes the nanos alone;
\* with_months and with_days never fail and change their own component alone.
C21_SecondsNanosMonthsDays ==
    /\ op = "with_seconds" =>
           IF BLe(TWO_POW_62, arg.seconds) THEN out = Fail("None")
           ELSE /\ out.kind = "Some"
                /\ mins_and_secs(out.val) = <<Zero, arg.seconds>>
                /\ SameNominalAndNanos(out.val, recv)
    /\ op = "mins_and_secs" /\ "seconds" \in DOMAIN arg /\ ~("hours" \in DOMAIN arg)
           => out = <<Zero, arg.seconds>>
    /\ op = "with_nanos" =>
           IF BLe(FromInt(1000000000), arg.nanos) THEN out = Fail("None")
           ELSE out = Ret("Some", [recv EXCEPT !.nanos = arg.nanos])
    /\ op = "with_months" => out = Ret("Value", [recv EXCEPT !.months = arg.months])
    /\ op = "with_days" => out = Ret("Value", [recv EXCEPT !.days = arg.days])
C21_Witness ==
    /\ op = "mins_and_secs"
    /\ arg = [seconds |-> BSub(TWO_POW_62, One)]
    /\ out = <<Zero, BSub(TWO_POW_62, One)>>
    /\ recv.nanos = FromInt(999999999)
    /\ recv.mins_and_secs = from_seconds(BSub(TWO_POW_62, One)).n

\* the packed word of a duration, its two low bits and what it decodes to
Word(d) == d.mins_and_secs
Bit0(d) == BitAnd(Word(d), One) = One
Bit1(d) == BitAnd(Word(d), FromInt(2)) = FromInt(2)
Mins(d) == mins_and_secs(d)[1]
Secs(d) == mins_and_secs(d)[2]

\* C25: whatever setters were called since CalendarDuration::new(), the packed
\* word is not zero and has bit 1 set; bit 0 is set exactly when the decoded
\* minutes are above 0; with bit 0 set the decoded seconds are at most 60 and
\* the minutes below 2^56; with bit 0 clear the seconds are below 2^62; and
\* the nanos are below 1_000_000_000.
C25_PackedWord ==
    /\ Word(cur) # Zero
    /\ Bit1(cur)
    /\ Bit0(cur) <=> BLt(Zero, Mins(cur))
    /\ Bit0(cur) => BLe(Secs(cur), FromInt(60)) /\ BLt(Mins(cur), TWO_POW_56)
    /\ ~Bit0(cur) => BLt(Secs(cur), TWO_POW_62)
    /\ BLt(cur.nanos, FromInt(1000000000))
C25_Witness ==
    /\ op = "with_nanos"
    /\ arg.nanos = FromInt(1000000000)
    /\ out = Fail("None")
    /\ Bit0(cur)
    /\ Mins(cur) = BSub(TWO_POW_56, One)
    /\ Secs(cur) = FromInt(60)
    /\ cur.nanos = FromInt(999999999)

\* C26 as stated: new().with_hms(0, 0, 0) and new().with_seconds(0) hold
\* different packed words.
C26_ZeroWordsDiffer ==
    (op = "with_hms" /\ recv = CalendarDuration_new.val /\ arg = Hms(Zero, Zero, Zero)) =>
        Word(out.val) # Word(with_seconds(CalendarDuration_new.val, Zero).val)

\* C26, amended: new().with_hms(0, 0, 0) and new().with_seconds(0) hold the
\* same packed word, that of new(), and are equal; is_zero() is true for
\* both; and is_zero() is true exactly when months, days, decoded minutes,
\* decoded seconds and nanos are all zero.
C26_ZeroWordsAgree ==
    /\ (op = "with_hms" /\ recv = CalendarDuration_new.val /\ arg = Hms(Zero, Zero, Zero)) =>
           /\ out.kind = "Some"
           /\ Word(out.val) = Word(with_seconds(CalendarDuration_new.val, Zero).val)
           /\ out.val = with_seconds(CalendarDuration_new.val, Zero).val
           /\ is_zero(out.val)
    /\ (op = "with_seconds" /\ recv = CalendarDuration_new.val /\ arg.seconds = Zero) =>
           /\ out.kind = "Some"
           /\ Word(out.val) = Word(CalendarDuration_new.val)
           /\ is_zero(out.val)
    /\ op = "is_zero" =>
           (out <=> /\ recv.months = Zero
                    /\ recv.days = Zero
                    /\ Mins(recv) = Zero
                    /\ Secs(recv) = Zero
                    /\ recv.nanos = Zero)
C26_Witness ==
    /\ op = "with_hms"
    /\ recv = CalendarDuration_new.val
    /\ arg = Hms(Zero, Zero, Zero)
    /\ out.kind = "Some"
    /\ Word(out.val) = FromInt(2)

\* durations built with the public setters, to compare the duration held with
BuiltDurations == {
    CalendarDuration_new.val,
    with_hms(CalendarDuration_new.val, Zero, Zero, Zero).val,
    with_seconds(CalendarDuration_new.val, Zero).val,
    with_hms(CalendarDuration_new.val, Zero, Zero, FromInt(60)).val,
    with_seconds(CalendarDuration_new.val, FromInt(60)).val,
    with_hms(CalendarDuration_new.val, Zero, One, Zero).val,
    with_seconds(CalendarDuration_new.val, FromInt(64)).val,
    with_hms(with_months(CalendarDuration_new.val, FromInt(18)).val, Zero, One, Zero).val,
    with_nanos(with_seconds(with_days(CalendarDuration_new.val, U32_MAX).val,
                            FromInt(60)).val, FromInt(999999999)).val,
    with_nanos(with_hms(with_days(CalendarDuration_new.val, U32_MAX).val,
                        Zero, Zero, FromInt(60)).val, FromInt(999999999)).val,
    with_seconds(with_hms(CalendarDuration_new.val, FromInt(3), FromInt(4), FromInt(5)).val,
                 BSub(TWO_POW_62, One)).val
}
SameComponents(a, b) ==
    /\ a.months = b.months
    /\ a.days = b.days
    /\ mins_and_secs(a) = mins_and_secs(b)
    /\ a.nanos = b.nanos

\* C27: a duration without minutes has one encoding: with_hms(0, 0, s) equals
\* with_seconds(s) for s <= 60 and with_hms(0, 0, 0) on new() equals new(); so
\* two durations built with the setters are equal exactly when their months,
\* days, minutes and seconds, and nanos agree.
C27_Canonical ==
    /\ (op = "with_hms" /\ arg.hours = Zero /\ arg.minutes = Zero
            /\ BLe(arg.seconds, FromInt(60))) => out = with_seconds(recv, arg.seconds)
    /\ (op = "with_hms" /\ recv = CalendarDuration_new.val /\ arg = Hms(Zero, Zero, Zero)) =>
           out.val = CalendarDuration_new.val
    /\ \A other \in BuiltDurations : (cur = other) <=> SameComponents(cur, other)
C27_Witness ==
    /\ op = "with_hms"
    /\ arg = Hms(Zero, Zero, FromInt(60))
    /\ recv.mins_and_secs = from_minutes_and_seconds(FromInt(184), FromInt(5)).n
    /\ recv.days = U32_MAX
    /\ recv.nanos = FromInt(999999999)
    /\ cur = with_nanos(with_seconds(with_days(CalendarDuration_new.val, U32_MAX).val,
                                     FromInt(60)).val, FromInt(999999999)).val

\* ------------------------------------------------------------------------
\* A program holding one TimeDelta multiplies it or divides it by an i32, or
\* compares it with another TimeDelta.
\* ------------------------------------------------------------------------

\* #[derive(PartialEq, Eq, PartialOrd, Ord)] on TimeDelta { secs, nanos }: the
\* fields are compared in the order they are declared
\* fault: the order of the seconds alone
lt_secs_only(self, other) == BLt(self.secs, other.secs)
lt(self, other) ==
    \/ BLt(self.secs, other.secs)
    \/ self.secs = other.secs /\ self.nanos < other.nanos
eq(self, other) == self.secs = other.secs /\ self.nanos = other.nanos

\* the TimeDeltas the program may hold or compare with, all within MIN..MAX
ScalarDeltas == {
    TimeDelta(Zero, 0), TimeDelta(Zero, 1), TimeDelta(FromInt(-1), 999999999),
    TimeDelta(One, 2), TimeDelta(FromInt(-2), 999999998),
    TimeDelta(One, 0), TimeDelta(FromInt(-1), 0),
    TimeDelta(FromInt(4), 0), TimeDelta(FromInt(-4), 0),
    TimeDelta(Zero, 30), TimeDelta(Zero, 123456789), TimeDelta(FromInt(-1), 876543211),
    \* 1500, -1500, -1001 and -1002 milliseconds
    TimeDelta(One, 500000000), TimeDelta(FromInt(-2), 500000000),
    TimeDelta(FromInt(-2), 999000000), TimeDelta(FromInt(-2), 998000000),
    \* 1_234_567_890, -1_234_567_890 and -1_234_567_891 nanoseconds
    TimeDelta(One, 234567890), TimeDelta(FromInt(-2), 765432110),
    TimeDelta(FromInt(-2), 765432109),
    \* a day, a second and a nanosecond
    TimeDelta(FromInt(86401), 1),
    MIN, MAX,
    \* MIN + 1 millisecond, MAX - 1 millisecond
    TimeDelta(MIN.secs, MIN.nanos + 1000000), TimeDelta(MAX.secs, MAX.nanos - 1000000)
}
\* the i32 factors and divisors
ScalarFactors == {I32_MIN, FromInt(-1000000000), FromInt(-2), FromInt(-1), Zero, One,
                  FromInt(2), FromInt(3), FromInt(333333333), FromInt(1000000000), I32_MAX}
ScalarDivisors == {I32_MIN, FromInt(-3), FromInt(-2), FromInt(-1), Zero, One, FromInt(2),
                   FromInt(3), FromInt(7), I32_MAX}

ScalarInit ==
    /\ overflow_checks \in BOOLEAN
    /\ cur \in ScalarDeltas
    /\ op = "start"
    /\ recv = cur
    /\ arg = Zero
    /\ out = Fail("start")
    /\ live = TRUE
    /\ steps = 0

\* one call of `*`, `/`, `<` or `==` on the TimeDelta held
ScalarNext ==
    \/ \E k \in ScalarFactors : Called("mul", k, mul(cur, k))
    \/ \E k \in ScalarDivisors : Called("div", k, div(cur, k))
    \/ \E rhs \in ScalarDeltas : Called("lt", rhs, Ret("Value", lt(cur, rhs)))
    \/ \E rhs \in ScalarDeltas : Called("eq", rhs, Ret("Value", eq(cur, rhs)))

SpecScalar == ScalarInit /\ [][ScalarNext]_vars

\* ------------------------------------------------------------------------
\* Properties of `*`, `/` and the order of TimeDelta
\* ------------------------------------------------------------------------

\* the greatest integer at most a / b
FloorDiv(a, b) ==
    Let(TruncDivRem(a, b), LAMBDA qr :
        IF qr[2] # Zero /\ BSign(qr[2]) * BSign(b) < 0 THEN BSub(qr[1], One) ELSE qr[1])

\* C22: for d within MIN..MAX and an i32 k other than 0, `d / k` is the
\* TimeDelta of floor(total_nanos(d) / k) nanoseconds, its nanos in
\* [0, 1_000_000_000).
C22_DivFloor ==
    (op = "div" /\ InRangeTD(recv) /\ arg # Zero) =>
        /\ out.kind = "Value"
        /\ out.val.nanos >= 0 /\ out.val.nanos < NANOS_PER_SEC
        /\ total_nanos(out.val) = FloorDiv(total_nanos(recv), arg)

\* C23: for d within MIN..MAX and an i32 k other than 0 and i32::MIN,
\* (-d) / k = -(d / k) and d / (-k) = -(d / k); d / 1 = d, d / -1 = -d, and
\* seconds(-4) / 3 = -(seconds(4) / 3) = nanoseconds(-1_333_333_333).
C23_DivSignSymmetric ==
    (op = "div" /\ InRangeTD(recv) /\ arg # Zero /\ arg # I32_MIN) =>
        /\ out.kind = "Value"
        /\ div(neg(recv).val, arg) = neg(out.val)
        /\ div(recv, BNeg(arg)) = neg(out.val)
        /\ arg = One => out.val = recv
        /\ arg = FromInt(-1) => out = neg(recv)
        /\ (recv = TimeDelta(FromInt(-4), 0) /\ arg = FromInt(3)) =>
               /\ out.val = TimeDelta(FromInt(-2), 666666667)
               /\ out = neg(div(TimeDelta(FromInt(4), 0), arg).val)

\* C24: for d within MIN..MAX and an i32 k with total_nanos(d) * k within
\* MIN..MAX, `d * k` returns, in every build, the TimeDelta of exactly
\* total_nanos(d) * k nanoseconds, its nanos in [0, 1_000_000_000), also for
\* negative d and negative k.
C24_MulExact ==
    (op = "mul" /\ InRangeTD(recv) /\ WithinRange(BMul(total_nanos(recv), arg))) =>
        /\ out.kind = "Value"
        /\ out.val.nanos >= 0 /\ out.val.nanos < NANOS_PER_SEC
        /\ total_nanos(out.val) = BMul(total_nanos(recv), arg)
C24_Witness ==
    /\ op = "mul"
    /\ overflow_checks
    /\ recv = TimeDelta(FromInt(-2), 500000000)
    /\ arg = FromInt(-1000000000)
    /\ out = Ret("Value", TimeDelta(FromInt(1500000000), 0))

\* C30: the derived order and equality of TimeDelta are those of the total
\* nanoseconds: a < b exactly when total_nanos(a) < total_nanos(b), and a == b
\* exactly when the totals are equal, also for negative values with nanos
\* other than 0.
C30_OrderIsNumeric ==
    /\ (op = "lt" /\ InRangeTD(recv) /\ InRangeTD(arg)) =>
           (out.val <=> BLt(total_nanos(recv), total_nanos(arg)))
    /\ (op = "eq" /\ InRangeTD(recv) /\ InRangeTD(arg)) =>
           (out.val <=> total_nanos(recv) = total_nanos(arg))
C30_Witness ==
    /\ op = "lt"
    /\ recv = TimeDelta(FromInt(-2), 765432109)
    /\ arg = TimeDelta(FromInt(-2), 765432110)
    /\ out.val = TRUE

\* ------------------------------------------------------------------------
\* Subtraction against addition, and offsets there and back, on NaiveDateTime
\* ------------------------------------------------------------------------

\* The subtractions documented with checked_sub_signed and with `-`
\* (naive/datetime/mod.rs 436-489 and 1402-1437): receiver, duration, result.
\* The last five have a receiver in a leap second.
SubtractionExamples ==
    LET t(h, m, s, ms) == ymd_hms_nano(2016, 7, 8, h, m, s, ms * 1000000)
        y(h, m, s, ms) == ymd_hms_nano(2016, 7, 7, h, m, s, ms * 1000000)
        sec(n) == TimeDelta(FromInt(n), 0)
        ms(n) == TimeDelta(Zero, n * 1000000)
    IN {<<t(3, 5, 7, 0), sec(0), t(3, 5, 7, 0)>>,
        <<t(3, 5, 7, 0), sec(1), t(3, 5, 6, 0)>>,
        <<t(3, 5, 7, 0), sec(-1), t(3, 5, 8, 0)>>,
        <<t(3, 5, 7, 0), sec(3600 + 60), t(2, 4, 7, 0)>>,
        <<t(3, 5, 7, 0), sec(86400), y(3, 5, 7, 0)>>,
        <<t(3, 5, 7, 0), sec(365 * 86400), ymd_hms_nano(2015, 7, 9, 3, 5, 7, 0)>>,
        <<t(3, 5, 7, 450), ms(670), t(3, 5, 6, 780)>>,
        <<t(3, 5, 59, 1300), sec(0), t(3, 5, 59, 1300)>>,
        <<t(3, 5, 59, 1300), ms(200), t(3, 5, 59, 1100)>>,
        <<t(3, 5, 59, 1300), ms(500), t(3, 5, 59, 800)>>,
        <<t(3, 5, 59, 1300), sec(60), t(3, 5, 0, 300)>>,
        <<t(3, 5, 59, 1300), sec(86400), y(3, 6, 0, 300)>>}
\* each documented subtraction is what checked_add_signed gives for the negated
\* duration. Beyond these rows, what NaiveTime::overflowing_sub_signed and
\* NaiveDate::checked_sub_signed return is not given by the source or its
\* specification, so that subtraction is addition of the negation for every
\* receiver and duration is not decided by this model.
SubtractionExamplesAreAdditions ==
    \A row \in SubtractionExamples :
        /\ neg(row[2]).kind = "Value"
        /\ checked_add_signed(row[1], neg(row[2]).val) = Ret("Ok", row[3])

\* C29: if dt.checked_add_offset(off) is Ok(x) then x.checked_sub_offset(off)
\* is Ok(dt), and the same with sub first and add second; and x has the
\* nanosecond field of dt, also when that is 1_000_000_000 or more.
C29_OffsetThereAndBack ==
    /\ (op = "checked_add_offset" /\ out.kind = "Ok") =>
           /\ checked_sub_offset(out.val, arg) = Ret("Ok", recv)
           /\ out.val.time.frac = recv.time.frac
    /\ (op = "checked_sub_offset" /\ out.kind = "Ok") =>
           /\ checked_add_offset(out.val, arg) = Ret("Ok", recv)
           /\ out.val.time.frac = recv.time.frac
C29_Witness ==
    /\ op = "checked_add_offset"
    /\ recv = ymd_hms_nano(2014, 1, 31, 23, 59, 59, 1000000000)
    /\ arg = 7200
    /\ out = Ret("Ok", ymd_hms_nano(2014, 2, 1, 1, 59, 59, 1000000000))
====
